---- MODULE Spec2Model ----
(***************************************************************************)
(* predict-game: the GameScreen phase machine and target motion            *)
(* (src/gameplay), calculateScore (src/score) and the AsyncStorage-backed  *)
(* player / score store (src/storage).                                     *)
(*                                                                         *)
(* Lengths are whole pixels and times whole milliseconds.  Fractions that  *)
(* the code forms (penalties) are kept exact as pairs <<num, den>>.        *)
(***************************************************************************)
EXTENDS Integers, Sequences, FiniteSets, TLC

VARIABLES
    \* ---- calculateScore harness
    scoreCall,
    \* ---- one leg of the target motion: its start and the duration it is given
    legCall,
    \* ---- LeaderboardScreen (React state) and the tab pressed last
    board,
    \* ---- GameScreen (React state, refs, timers)
    mounted, mode, phase, countdown, result, fieldSize,
    observeTimer, countdownInterval, current, activeSave,
    motion, lastTouchRef,
    \* the async bodies of the save effect that are in flight
    saveRuns,
    \* ---- history: interval firings since 'countdown' was entered, results
    \* recorded and rejected saves in the round
    ticksFired, resultsThisRound, saveRejected,
    \* ---- startRef.current was set in the round under way
    startRefSet,
    \* ---- time in 'observe': ms left on the observe timeout, ms since the
    \* observe effect first ran on the laid-out field, calls of start()
    observeClock,
    \* ---- AsyncStorage and the storage.ts calls in flight
    store, tasks, nextId

scoreVars == <<scoreCall, legCall, board>>
gameVars  == <<mounted, mode, phase, countdown, result, fieldSize,
               observeTimer, countdownInterval, current, activeSave,
               motion, lastTouchRef, saveRuns,
               ticksFired, startRefSet, resultsThisRound, saveRejected, observeClock>>
storeVars == <<store, tasks, nextId>>
vars      == <<scoreVars, gameVars, storeVars>>

Min(a, b) == IF a <= b THEN a ELSE b
Max(a, b) == IF a >= b THEN a ELSE b
Abs(a)    == IF a < 0 THEN -a ELSE a

(***************************************************************************)
(* score.ts                                                                *)
(***************************************************************************)
BASE_SCORE      == 1000
DISTANCE_WEIGHT == 650
GRACE_MS        == 150
\* the 0.4 points per millisecond of timePenalty, in tenths of a point
TIME_WEIGHT_TENTHS == 4

\* Math.round on a fraction n/d (d > 0): the nearest integer, halves upwards.
MathRound(n, d) == (2 * n + d) \div (2 * d)

\* const timePenalty = Math.max(0, reactionMs - 150) * 0.4, in tenths
SignedTimePenaltyTenths(reactionMs) == (reactionMs - GRACE_MS) * TIME_WEIGHT_TENTHS

AbsTimePenaltyTenths(reactionMs) == Abs(reactionMs - GRACE_MS) * TIME_WEIGHT_TENTHS

TimePenaltyTenths(reactionMs) == Max(0, reactionMs - GRACE_MS) * TIME_WEIGHT_TENTHS

\* const clampedDistance = Math.min(distancePx, maxDistance)
ClampedDistance(distancePx, maxDistance) == Min(distancePx, maxDistance)

\* baseScore - distancePenalty - timePenalty as the fraction num / den, where
\* distancePenalty = (clampedDistance / maxDistance) * 650
RawScoreNum(distancePx, reactionMs, maxDistance) ==
    BASE_SCORE * 10 * maxDistance
    - ClampedDistance(distancePx, maxDistance) * DISTANCE_WEIGHT * 10
    - TimePenaltyTenths(reactionMs) * maxDistance

RawScoreDen(maxDistance) == 10 * maxDistance

TruncatedScore(distancePx, reactionMs, maxDistance) ==
    Max(0, RawScoreNum(distancePx, reactionMs, maxDistance) \div RawScoreDen(maxDistance))

\* return Math.max(0, Math.round(baseScore - distancePenalty - timePenalty))
calculateScore(distancePx, reactionMs, maxDistance) ==
    Max(0, MathRound(RawScoreNum(distancePx, reactionMs, maxDistance),
                     RawScoreDen(maxDistance)))

\* ---- the harness: one call of calculateScore on inputs drawn at Init
MaxFieldDiag     == 6
ReactionStep     == 250
MaxReactionSteps == 13

Distances    == 0 .. (MaxFieldDiag + 2)
MaxDistances == 1 .. MaxFieldDiag
ReactionTimes ==
    {0 - ReactionStep}
    \cup ((GRACE_MS - 3) .. (GRACE_MS + 6))
    \cup {k * ReactionStep : k \in 0 .. MaxReactionSteps}

LegIdle == [mode |-> "SIMPLE", width |-> 0, height |-> 0, x |-> 0, y |-> 0,
            vx |-> 0, vy |-> 0, distance |-> 0, nextTime |-> 0, duration |-> 0,
            done |-> FALSE, live |-> FALSE]

\* useState: data [], loading true, activeMode "SIMPLE"; no tab pressed yet
BoardIdle == [loading |-> TRUE, data |-> <<>>, activeMode |-> "SIMPLE",
              pressed |-> "none"]

ScoreIdle == [distancePx |-> 0, reactionMs |-> 0, maxDistance |-> 1,
              score |-> 0, done |-> FALSE, live |-> FALSE]

ScoreInit ==
    \E d \in Distances, r \in ReactionTimes, m \in MaxDistances :
        scoreCall = [distancePx |-> d, reactionMs |-> r, maxDistance |-> m,
                     score |-> 0, done |-> FALSE, live |-> TRUE]

Calculate ==
    /\ scoreCall.live
    /\ ~scoreCall.done
    /\ scoreCall' = [scoreCall EXCEPT
                       !.score = calculateScore(scoreCall.distancePx,
                                                scoreCall.reactionMs,
                                                scoreCall.maxDistance),
                       !.done = TRUE]
    /\ UNCHANGED <<legCall, board, gameVars, storeVars>>

(***************************************************************************)
(* gameplay.tsx: constants and helpers                                     *)
(***************************************************************************)
TARGET_SIZE     == 72
TARGET_RADIUS   == TARGET_SIZE \div 2
EDGE_PADDING    == TARGET_RADIUS + 28
COUNTDOWN_STEPS == 3
OBSERVE_DURATION == 2000

\* The laid-out field is 2 * EDGE_PADDING + 2k pixels wide or high, k <= MaxSlack:
\* k = 0 leaves no room to move on that axis.
MaxSlack == 1

\* Dimensions.get("window"), the field size assumed before the first layout
SCREEN_W == 2 * EDGE_PADDING + 2 * MaxSlack
SCREEN_H == 2 * EDGE_PADDING + 2

Modes  == {"SIMPLE", "NORMAL", "PRO"}
Phases == {"observe", "countdown", "guess", "result"}

\* Math.hypot, to the whole pixel below
Hypot(a, b) ==
    LET n == a * a + b * b
    IN  CHOOSE k \in Max(Abs(a), Abs(b)) .. (Abs(a) + Abs(b)) :
            k * k <= n /\ n < (k + 1) * (k + 1)

clamp(value, min, max) ==
    LET lower == Min(min, max)
        upper == Max(min, max)
    IN  Min(Max(value, lower), upper)

(***************************************************************************)
(* useTargetMotion                                                         *)
(***************************************************************************)
\* const bounds = useMemo(...)
Bounds(width, height) ==
    LET safeWidth  == Max(0, width)
        safeHeight == Max(0, height)
        centerX    == safeWidth \div 2
        centerY    == safeHeight \div 2
        canMoveX   == safeWidth > EDGE_PADDING * 2
        canMoveY   == safeHeight > EDGE_PADDING * 2
    IN  [minX |-> IF canMoveX THEN EDGE_PADDING ELSE centerX,
         maxX |-> IF canMoveX THEN safeWidth - EDGE_PADDING ELSE centerX,
         minY |-> IF canMoveY THEN EDGE_PADDING ELSE centerY,
         maxY |-> IF canMoveY THEN safeHeight - EDGE_PADDING ELSE centerY,
         centerX |-> centerX, centerY |-> centerY,
         canMoveX |-> canMoveX, canMoveY |-> canMoveY]

\* The refs of the hook: running, animationRef (animating: a leg is in flight
\* towards <<destX, destY>>; hitX / hitY are the leg's closure values),
\* positionRef (x, y: kept equal to the Animated values by the listeners),
\* velocityRef (vx, vy), and the field size whose bounds the running start()
\* closure holds (w, h).
MotionInit(width, height) ==
    [running |-> FALSE, animating |-> FALSE,
     x |-> width \div 2, y |-> height \div 2,
     vx |-> 0, vy |-> 0,
     destX |-> width \div 2, destY |-> height \div 2,
     hitX |-> FALSE, hitY |-> FALSE,
     w |-> width, h |-> height]

\* the effect on [bounds, x, y]: clamp the position into the bounds
BoundsEffectSkipped(m, b) == m

BoundsEffect(m, b) ==
    [m EXCEPT !.x = clamp(m.x, b.minX, b.maxX),
              !.y = clamp(m.y, b.minY, b.maxY)]

\* stop(): ends the leg in flight where it is and returns the clamped position
stop(m, b) ==
    [m EXCEPT !.running = FALSE, !.animating = FALSE,
              !.vx = 0, !.vy = 0,
              !.hitX = FALSE, !.hitY = FALSE,
              !.x = clamp(m.x, b.minX, b.maxX),
              !.y = clamp(m.y, b.minY, b.maxY),
              !.destX = clamp(m.x, b.minX, b.maxX),
              !.destY = clamp(m.y, b.minY, b.maxY)]

\* travel(nextX) of NORMAL mode: one leg along x to a bound
travel(m, nextX) ==
    IF ~m.running THEN m
    ELSE [m EXCEPT !.animating = TRUE, !.destX = nextX, !.destY = m.y,
                   !.hitX = FALSE, !.hitY = FALSE]

\* computeTime: time to the wall the velocity points at; fin = FALSE is Infinity
computeTime(position, velocity, min, max) ==
    IF velocity > 0 THEN [fin |-> TRUE, t |-> (max - position) \div velocity]
    ELSE IF velocity < 0 THEN [fin |-> TRUE, t |-> (position - min) \div (0 - velocity)]
    ELSE [fin |-> FALSE, t |-> 0]

\* the correction of a velocity that points into a wall the target is at
CorrectedV(canMove, origin, v, min, max) ==
    IF canMove /\ v # 0
    THEN IF origin <= min /\ v < 0 THEN Abs(v)
         ELSE IF origin >= max /\ v > 0 THEN 0 - Abs(v)
         ELSE v
    ELSE v

\* travelWithBounces() of PRO mode: one leg to the earliest wall
RECURSIVE travelWithBounces(_, _, _)
travelWithBounces(m, b, depth) ==
    IF ~m.running THEN m
    ELSE IF m.vx = 0 /\ m.vy = 0 THEN m
    ELSE
      LET timeToX    == computeTime(m.x, m.vx, b.minX, b.maxX)
          timeToY    == computeTime(m.y, m.vy, b.minY, b.maxY)
          candidates == {c \in {timeToX, timeToY} : c.fin /\ c.t > 0}
          nextTime   == IF timeToX \in candidates /\ timeToY \in candidates
                        THEN Min(timeToX.t, timeToY.t)
                        ELSE IF timeToX \in candidates THEN timeToX.t
                        ELSE timeToY.t
          cvx        == CorrectedV(b.canMoveX, m.x, m.vx, b.minX, b.maxX)
          cvy        == CorrectedV(b.canMoveY, m.y, m.vy, b.minY, b.maxY)
      IN  IF candidates = {}
          THEN IF (cvx # m.vx \/ cvy # m.vy) /\ depth > 0
               THEN travelWithBounces([m EXCEPT !.vx = cvx, !.vy = cvy], b, depth - 1)
               ELSE m
          ELSE [m EXCEPT
                  !.animating = TRUE,
                  !.destX = clamp(m.x + m.vx * nextTime, b.minX, b.maxX),
                  !.destY = clamp(m.y + m.vy * nextTime, b.minY, b.maxY),
                  !.hitX = timeToX.fin /\ nextTime = timeToX.t,
                  !.hitY = timeToY.fin /\ nextTime = timeToY.t]

\* the draws of one start(): randomBetween for the position, the angle's
\* quadrant (sx, sy) for the direction.  Directions are the diagonals (and the
\* axis when only one axis can move), so every wall hit lands on a whole pixel.
StartDraws(b) ==
    [x : b.minX .. b.maxX, y : b.minY .. b.maxY, sx : {-1, 1}, sy : {-1, 1}]

\* start(): lines 301-314, turn the first velocity away from a wall the
\* start position is on
StartV(canMove, startPos, v, min, max) ==
    IF canMove
    THEN IF startPos <= min /\ v < 0 THEN Abs(v)
         ELSE IF startPos >= max /\ v > 0 THEN 0 - Abs(v)
         ELSE v
    ELSE v

start(m, width, height, gameMode, draw) ==
    LET b      == Bounds(width, height)
        startX == draw.x
        startY == IF gameMode = "NORMAL" THEN b.centerY ELSE draw.y
        placed == [stop(m, b) EXCEPT !.x = startX, !.y = startY,
                                     !.destX = startX, !.destY = startY,
                                     !.w = width, !.h = height]
        run    == [placed EXCEPT !.running = TRUE]
    IN  IF gameMode = "SIMPLE" THEN placed
        ELSE IF gameMode = "NORMAL" /\ ~b.canMoveX THEN placed
        ELSE IF gameMode = "PRO" /\ ~b.canMoveX /\ ~b.canMoveY THEN placed
        ELSE IF gameMode = "NORMAL"
        THEN LET firstTarget == IF 2 * startX > b.minX + b.maxX
                                THEN b.minX ELSE b.maxX
             IN  travel(run, firstTarget)
        ELSE LET vx0 == IF b.canMoveX THEN draw.sx ELSE 0
                 vy0 == IF b.canMoveY THEN draw.sy ELSE 0
                 vx  == StartV(b.canMoveX, startX, vx0, b.minX, b.maxX)
                 vy  == StartV(b.canMoveY, startY, vy0, b.minY, b.maxY)
             IN  travelWithBounces([run EXCEPT !.vx = vx, !.vy = vy], b, 1)

\* a leg's finished callback: ({ finished }) => ... with finished = true
NormalLegFinished(m) ==
    LET b    == Bounds(m.w, m.h)
        done == [m EXCEPT !.x = m.destX, !.animating = FALSE]
    IN  travel(done, IF m.destX = b.maxX THEN b.minX ELSE b.maxX)

ProLegFinished(m) ==
    LET b      == Bounds(m.w, m.h)
        nextVx == IF m.hitX /\ b.canMoveX THEN 0 - m.vx ELSE m.vx
        nextVy == IF m.hitY /\ b.canMoveY THEN 0 - m.vy ELSE m.vy
        done   == [m EXCEPT !.x = m.destX, !.y = m.destY, !.animating = FALSE,
                            !.vx = nextVx, !.vy = nextVy]
    IN  travelWithBounces(done, b, 1)

\* frames left in the leg in flight, at one pixel a frame
Remaining(m) == Max(Abs(m.destX - m.x), Abs(m.destY - m.y))

Sign(a) == IF a > 0 THEN 1 ELSE IF a < 0 THEN -1 ELSE 0

\* the Animated values after j more frames of the linear leg
Advance(m, j) ==
    LET rem == Remaining(m)
        dx  == m.destX - m.x
        dy  == m.destY - m.y
    IN  [m EXCEPT !.x = m.x + Sign(dx) * ((Abs(dx) * j) \div rem),
                  !.y = m.y + Sign(dy) * ((Abs(dy) * j) \div rem)]

(***************************************************************************)
(* GameScreen                                                              *)
(***************************************************************************)
NoField  == [ready |-> FALSE, width |-> 0, height |-> 0]
NoResult == [present |-> FALSE, reactionMs |-> 0, distancePx |-> 0, score |-> 0,
             targetX |-> 0, targetY |-> 0, guessX |-> 0, guessY |-> 0,
             saveState |-> "none"]
NoTouch  == [set |-> FALSE, x |-> 0, y |-> 0]

\* const fieldWidth = fieldSize?.width ?? SCREEN_W, and so on
WidthOf(f)  == IF f.ready THEN f.width ELSE SCREEN_W
HeightOf(f) == IF f.ready THEN f.height ELSE SCREEN_H
fieldWidth   == WidthOf(fieldSize)
fieldHeight  == HeightOf(fieldSize)
isFieldReady == fieldSize.ready

\* what the environment feeds the handlers
LayoutWidths  == {0} \cup {2 * EDGE_PADDING + 2 * k : k \in 0 .. MaxSlack}
LayoutHeights == {0, 2 * EDGE_PADDING, SCREEN_H}
TouchXs       == {0, SCREEN_W + 3}
TouchYs       == {0}
Reactions     == {40, 3000}

\* The async bodies of the save effect in flight, all of the round being
\* played, oldest first.  stage: "nickname" (await getNickname()), "saving"
\* (await saveScoreEntry(payload)); cancelled is the closure's flag.  A body's
\* closure holds the round's result and the field size of its render.
MaxBodies == 2

Bodies == 1 .. MaxBodies

NewBody == [stage |-> "nickname", cancelled |-> FALSE]

\* return () => { cancelled = true; }
Cancelled(runs) == [i \in DOMAIN runs |-> [runs[i] EXCEPT !.cancelled = TRUE]]

\* body r has run to its end
Without(runs, r) == SubSeq(runs, 1, r - 1) \o SubSeq(runs, r + 1, Len(runs))

\* time passes in steps of at most TimeStep ms
TimeStep == 1000

NoClock == [left |-> 0, age |-> 0, starts |-> 0]

\* start(); setTimeout(..., OBSERVE_DURATION): the timeout is armed anew (the
\* calls of start() are counted up to two)
Armed(clock) ==
    [left |-> OBSERVE_DURATION, age |-> clock.age, starts |-> Min(clock.starts + 1, 2)]

\* return () => clearTimeout(timer) / clearInterval(interval): the cleanup
\* leaves no timer pending
TimerLeaked(pending) == pending

TimerCleared(pending) == FALSE

\* The commit that follows a handler's state updates: every effect whose
\* dependencies changed runs its cleanup, then its body, in hook order.
\*   [stop]                              cleanup: the previous stop()
\*   [bounds, x, y]                      body: clamp the position
\*   [phase, start, isFieldReady]        cleanup: clearTimeout; body: start(), setTimeout
\*   [phase]                             cleanup: clearInterval; body: setCountdown, setInterval
\*   [phase, result, mode, fieldWidth, fieldHeight]
\*                                       cleanup: cancelled = true; body: the save
CommitRuns(phaseN, fieldN, resultN, countdownN, currentN, motionN, runsN, draw) ==
    LET w0 == fieldWidth
        h0 == fieldHeight
        w1 == WidthOf(fieldN)
        h1 == HeightOf(fieldN)
        boundsChanged  == <<w0, h0>> # <<w1, h1>>
        phaseChanged   == phaseN # phase
        observeRerun   == phaseChanged \/ boundsChanged \/ fieldN.ready # fieldSize.ready
        saveRerun      == phaseChanged \/ boundsChanged \/ resultN # result
        observeRuns    == observeRerun /\ phaseN = "observe" /\ fieldN.ready
        countdownRuns  == phaseChanged /\ phaseN = "countdown"
        mA == IF boundsChanged THEN stop(motionN, Bounds(w0, h0)) ELSE motionN
        mB == IF boundsChanged THEN BoundsEffect(mA, Bounds(w1, h1)) ELSE mA
        mC == IF observeRuns THEN start(mB, w1, h1, mode, draw) ELSE mB
        saveRuns_  == /\ saveRerun
                      /\ phaseN = "result"
                      /\ resultN.present
                      /\ resultN.saveState = "pending"
                      /\ w1 > 0 /\ h1 > 0
        rA == IF saveRerun THEN Cancelled(runsN) ELSE runsN
    IN  /\ saveRuns_ => Len(rA) < MaxBodies
        /\ saveRuns' = IF saveRuns_ THEN Append(rA, NewBody) ELSE rA
        /\ phase' = phaseN
        /\ fieldSize' = fieldN
        /\ result' = resultN
        /\ motion' = mC
        /\ observeTimer' = IF observeRerun
                           THEN TimerCleared(observeTimer) \/ observeRuns
                           ELSE observeTimer
        /\ countdownInterval' = IF phaseChanged
                                THEN TimerCleared(countdownInterval) \/ countdownRuns
                                ELSE countdownInterval
        /\ countdown' = IF countdownRuns THEN COUNTDOWN_STEPS ELSE countdownN
        /\ current' = IF countdownRuns THEN COUNTDOWN_STEPS ELSE currentN
        /\ activeSave' = IF saveRerun THEN saveRuns_ ELSE activeSave
        /\ observeClock' = IF observeRuns THEN Armed(observeClock)
                           ELSE IF observeRerun THEN NoClock
                           ELSE observeClock

Commit(phaseN, fieldN, resultN, countdownN, currentN, motionN, draw) ==
    CommitRuns(phaseN, fieldN, resultN, countdownN, currentN, motionN, saveRuns, draw)

\* the draws a commit needs: those of start() when the observe effect will run
DrawsFor(phaseN, fieldN) ==
    IF phaseN = "observe" /\ fieldN.ready
    THEN StartDraws(Bounds(WidthOf(fieldN), HeightOf(fieldN)))
    ELSE {[x |-> 0, y |-> 0, sx |-> 1, sy |-> 1]}

GameIdle ==
    /\ mounted = FALSE
    /\ mode = "SIMPLE"
    /\ phase = "observe"
    /\ countdown = COUNTDOWN_STEPS
    /\ result = NoResult
    /\ fieldSize = NoField
    /\ observeTimer = FALSE
    /\ countdownInterval = FALSE
    /\ current = COUNTDOWN_STEPS
    /\ activeSave = FALSE
    /\ motion = MotionInit(SCREEN_W, SCREEN_H)
    /\ lastTouchRef = NoTouch
    /\ saveRuns = <<>>
    /\ ticksFired = 0
    /\ resultsThisRound = 0
    /\ saveRejected = FALSE
    /\ observeClock = NoClock
    /\ startRefSet = FALSE

\* the first render and its effects: the field is not laid out yet
GameInit ==
    /\ mounted = TRUE
    /\ mode \in Modes
    /\ phase = "observe"
    /\ countdown = COUNTDOWN_STEPS
    /\ result = NoResult
    /\ fieldSize = NoField
    /\ observeTimer = FALSE
    /\ countdownInterval = FALSE
    /\ current = COUNTDOWN_STEPS
    /\ activeSave = FALSE
    /\ motion = BoundsEffect(MotionInit(SCREEN_W, SCREEN_H), Bounds(SCREEN_W, SCREEN_H))
    /\ lastTouchRef = NoTouch
    /\ saveRuns = <<>>
    /\ ticksFired = 0
    /\ resultsThisRound = 0
    /\ saveRejected = FALSE
    /\ observeClock = NoClock
    /\ startRefSet = FALSE

\* onLayout: handleFieldLayout
handleFieldLayout(width, height) ==
    /\ mounted
    /\ IF width <= 0 \/ height <= 0
       THEN UNCHANGED gameVars
       ELSE LET fieldN == [ready |-> TRUE, width |-> width, height |-> height]
            IN  /\ \E draw \in DrawsFor(phase, fieldN) :
                       Commit(phase, fieldN, result, countdown, current, motion, draw)
                /\ UNCHANGED <<mounted, mode, lastTouchRef, ticksFired, startRefSet, resultsThisRound, saveRejected>>
    /\ UNCHANGED <<scoreVars, storeVars>>

\* the setTimeout of the observe effect fires: setPhase("countdown")
ObserveTimeout ==
    /\ mounted
    /\ observeTimer
    /\ observeClock.left = 0
    /\ \E draw \in DrawsFor("countdown", fieldSize) :
           Commit("countdown", fieldSize, result, countdown, current, motion, draw)
    /\ ticksFired' = 0
    /\ UNCHANGED <<mounted, mode, lastTouchRef, resultsThisRound, saveRejected, startRefSet>>
    /\ UNCHANGED <<scoreVars, storeVars>>

\* time passes while the observe timeout is pending and not yet due
Elapse ==
    /\ mounted
    /\ observeTimer
    /\ observeClock.left > 0
    /\ LET d == Min(TimeStep, observeClock.left)
       IN  observeClock' = [observeClock EXCEPT
                              !.left = @ - d,
                              !.age = Min(@ + d, OBSERVE_DURATION + TimeStep)]
    /\ UNCHANGED <<mounted, mode, phase, countdown, result, fieldSize, observeTimer,
                   countdownInterval, current, activeSave, motion, lastTouchRef,
                   saveRuns, ticksFired, startRefSet, resultsThisRound, saveRejected>>
    /\ UNCHANGED <<scoreVars, storeVars>>

\* if (current <= 0) of the interval callback
CountdownOverEarly(cur) == cur <= 1

CountdownOver(cur) == cur <= 0

\* the setInterval of the countdown effect fires
CountdownTick ==
    /\ mounted
    /\ countdownInterval
    /\ LET cur == current - 1
       IN  IF CountdownOver(cur)
           THEN \E draw \in DrawsFor("guess", fieldSize) :
                    Commit("guess", fieldSize, result, countdown, cur, motion, draw)
           ELSE \E draw \in DrawsFor(phase, fieldSize) :
                    Commit(phase, fieldSize, result, cur, cur, motion, draw)
    /\ ticksFired' = ticksFired + 1
    /\ startRefSet' = (startRefSet \/ CountdownOver(current - 1))
    /\ UNCHANGED <<mounted, mode, lastTouchRef, resultsThisRound, saveRejected>>
    /\ UNCHANGED <<scoreVars, storeVars>>

\* if (phase !== "guess" || !isFieldReady) return;  (also the Pressable's disabled)
TapAcceptedAnyPhase == isFieldReady

TapAccepted == phase = "guess" /\ isFieldReady

\* onPressIn: handlePressIn remembers the touch
handlePressIn(touchX, touchY) ==
    /\ mounted
    /\ IF ~TapAccepted
       THEN UNCHANGED lastTouchRef
       ELSE lastTouchRef' = [set |-> TRUE,
                             x |-> clamp(touchX, 0, fieldWidth),
                             y |-> clamp(touchY, 0, fieldHeight)]
    /\ UNCHANGED <<mounted, mode, phase, countdown, result, fieldSize, observeTimer,
                   countdownInterval, current, activeSave, motion, saveRuns,
                   ticksFired, startRefSet, resultsThisRound, saveRejected, observeClock>>
    /\ UNCHANGED <<scoreVars, storeVars>>

\* onPress: handleGuess ends the round
handleGuess(locationX, locationY, reactionMs) ==
    /\ mounted
    /\ IF ~TapAccepted
       THEN UNCHANGED gameVars
       ELSE LET fallbackTouch     == lastTouchRef
                shouldUseFallback == /\ fallbackTouch.set
                                     /\ locationX = 0 /\ locationY = 0
                                     /\ (fallbackTouch.x # 0 \/ fallbackTouch.y # 0)
                guessX   == clamp(IF shouldUseFallback THEN fallbackTouch.x ELSE locationX,
                                  0, fieldWidth)
                guessY   == clamp(IF shouldUseFallback THEN fallbackTouch.y ELSE locationY,
                                  0, fieldHeight)
                stopped  == stop(motion, Bounds(fieldWidth, fieldHeight))
                distancePx  == Hypot(guessX - stopped.x, guessY - stopped.y)
                maxDistance == Max(1, Hypot(fieldWidth, fieldHeight))
                score       == calculateScore(distancePx, reactionMs, maxDistance)
                resultN  == [present |-> TRUE, reactionMs |-> reactionMs,
                             distancePx |-> distancePx, score |-> score,
                             targetX |-> stopped.x, targetY |-> stopped.y,
                             guessX |-> guessX, guessY |-> guessY,
                             saveState |-> "pending"]
            IN  /\ \E draw \in DrawsFor("result", fieldSize) :
                       Commit("result", fieldSize, resultN, countdown, current, stopped, draw)
                /\ lastTouchRef' = NoTouch
                /\ resultsThisRound' = resultsThisRound + 1
                /\ UNCHANGED <<mounted, mode, ticksFired, startRefSet, saveRejected>>
    /\ UNCHANGED <<scoreVars, storeVars>>

\* what a body of the save effect leaves unchanged when it does not set state
SaveFrame ==
    UNCHANGED <<mounted, mode, phase, countdown, result, fieldSize, observeTimer,
                countdownInterval, current, activeSave, motion, lastTouchRef,
                ticksFired, startRefSet, resultsThisRound, observeClock>>

\* setResult((prev) => prev ? { ...prev, saveState } : prev) of body r
SetSaveState(r, status) ==
    LET runsN   == Without(saveRuns, r)
        resultN == IF result.present THEN [result EXCEPT !.saveState = status] ELSE result
    IN  IF saveRuns[r].cancelled
        THEN saveRuns' = runsN /\ SaveFrame
        ELSE /\ \E draw \in DrawsFor(phase, fieldSize) :
                    CommitRuns(phase, fieldSize, resultN, countdown, current, motion,
                               runsN, draw)
             /\ UNCHANGED <<mounted, mode, lastTouchRef, ticksFired, startRefSet, resultsThisRound>>

\* getNickname() settles: saveScoreEntry(payload) is called, or the catch
\* branch runs
SaveNicknameCore(r, ok) ==
    /\ r \in DOMAIN saveRuns
    /\ saveRuns[r].stage = "nickname"
    /\ IF ok
       THEN /\ saveRuns' = [saveRuns EXCEPT ![r].stage = "saving"]
            /\ SaveFrame
       ELSE SetSaveState(r, "error")
    /\ saveRejected' = (saveRejected \/ ~ok)

\* saveScoreEntry(payload) settles: saved, or the catch branch
SaveSettledCore(r, ok) ==
    /\ r \in DOMAIN saveRuns
    /\ saveRuns[r].stage = "saving"
    /\ SetSaveState(r, IF ok THEN "saved" ELSE "error")
    /\ saveRejected' = (saveRejected \/ ~ok)

\* the same steps with the storage calls left to the environment
SaveNickname(r, ok) == SaveNicknameCore(r, ok) /\ UNCHANGED <<scoreVars, storeVars>>

SaveSettled(r, ok) == SaveSettledCore(r, ok) /\ UNCHANGED <<scoreVars, storeVars>>

\* "Play again", rendered with the result card: resetGame.  The bodies of
\* the round that ends are cancelled by the save effect's cleanup; cancelled,
\* they set no state of the screen any more and are followed no further.
resetGame ==
    /\ mounted
    /\ phase = "result" /\ result.present
    /\ \E draw \in DrawsFor("observe", fieldSize) :
           CommitRuns("observe", fieldSize, NoResult, COUNTDOWN_STEPS, current, motion,
                      <<>>, draw)
    /\ resultsThisRound' = 0
    /\ saveRejected' = FALSE
    /\ startRefSet' = FALSE
    /\ UNCHANGED <<mounted, mode, lastTouchRef, ticksFired>>
    /\ UNCHANGED <<scoreVars, storeVars>>

\* a frame of the leg in flight: the listeners copy the values to positionRef
AnimFrame ==
    /\ mounted
    /\ motion.animating
    /\ \E j \in 1 .. (Remaining(motion) - 1) : motion' = Advance(motion, j)
    /\ UNCHANGED <<mounted, mode, phase, countdown, result, fieldSize, observeTimer,
                   countdownInterval, current, activeSave, lastTouchRef, saveRuns,
                   ticksFired, startRefSet, resultsThisRound, saveRejected, observeClock>>
    /\ UNCHANGED <<scoreVars, storeVars>>

\* the leg in flight ends: its callback starts the next leg
AnimFinished ==
    /\ mounted
    /\ motion.animating
    /\ motion' = IF mode = "NORMAL" THEN NormalLegFinished(motion)
                 ELSE ProLegFinished(motion)
    /\ UNCHANGED <<mounted, mode, phase, countdown, result, fieldSize, observeTimer,
                   countdownInterval, current, activeSave, lastTouchRef, saveRuns,
                   ticksFired, startRefSet, resultsThisRound, saveRejected, observeClock>>
    /\ UNCHANGED <<scoreVars, storeVars>>

\* the screen leaves the stack: every effect's cleanup runs (the bodies of the
\* save effect are cancelled and followed no further)
Unmount ==
    /\ mounted
    /\ mounted' = FALSE
    /\ motion' = stop(motion, Bounds(fieldWidth, fieldHeight))
    /\ observeTimer' = TimerCleared(observeTimer)
    /\ countdownInterval' = TimerCleared(countdownInterval)
    /\ activeSave' = FALSE
    /\ saveRuns' = <<>>
    /\ observeClock' = NoClock
    /\ UNCHANGED <<mode, phase, countdown, result, fieldSize, current, lastTouchRef,
                   ticksFired, startRefSet, resultsThisRound, saveRejected>>
    /\ UNCHANGED <<scoreVars, storeVars>>

GameNext ==
    \/ \E width \in LayoutWidths, height \in LayoutHeights : handleFieldLayout(width, height)
    \/ Elapse
    \/ ObserveTimeout
    \/ CountdownTick
    \/ \E touchX \in TouchXs, touchY \in TouchYs : handlePressIn(touchX, touchY)
    \/ \E locationX \in TouchXs, locationY \in TouchYs, reactionMs \in Reactions :
           handleGuess(locationX, locationY, reactionMs)
    \/ \E r \in Bodies, ok \in BOOLEAN : SaveNickname(r, ok)
    \/ \E r \in Bodies, ok \in BOOLEAN : SaveSettled(r, ok)
    \/ resetGame
    \/ AnimFrame
    \/ AnimFinished
    \/ Unmount

(***************************************************************************)
(* storage.ts over AsyncStorage                                            *)
(*                                                                         *)
(* A stored text is [kind, isArray, items]: kind "absent" (getItem gives   *)
(* null), "empty" (the empty string), "garbage" (no valid JSON) or "json"; *)
(* a "json" text denotes an array of items, or some other JSON value.      *)
(* Profile ids are numbered; id 0 and the name "<null>" stand for null.    *)
(***************************************************************************)
NoId   == 0
NoName == "<null>"

Absent      == [kind |-> "absent",  isArray |-> FALSE, items |-> <<>>]
EmptyText   == [kind |-> "empty",   isArray |-> FALSE, items |-> <<>>]
GarbageText == [kind |-> "garbage", isArray |-> FALSE, items |-> <<>>]
ObjectText  == [kind |-> "json",    isArray |-> FALSE, items |-> <<>>]

\* JSON.stringify of an array
Stringify(list) == [kind |-> "json", isArray |-> TRUE, items |-> list]

\* JSON.parse: throws on text that is no JSON
Parse(raw) == [threw |-> raw.kind # "json", isArray |-> raw.isArray, items |-> raw.items]

\* name.trim(), toLowerCase() and length on the names the model uses
sanitizeName(name) ==
    CASE name = " Ann " -> "Ann"
      [] name = "  "    -> ""
      [] name = NoName  -> ""
      [] OTHER          -> name

toLowerCase(name) == IF name = "Ann" THEN "ann" ELSE name

Length(name) ==
    CASE name = ""   -> 0
      [] name = "al" -> 2
      [] OTHER       -> 3

\* an element of the players array, as isPlayerProfile sees it
Profile(id, name) ==
    [truthy |-> TRUE, isObject |-> TRUE, idIsString |-> TRUE, nameIsString |-> TRUE,
     createdAtIsString |-> TRUE, id |-> id, name |-> name]

NoProfile == [Profile(NoId, NoName) EXCEPT !.truthy = FALSE, !.isObject = FALSE,
                 !.idIsString = FALSE, !.nameIsString = FALSE, !.createdAtIsString = FALSE]

\* createPlayerProfile: a fresh id (Date.now() and six random characters)
createPlayerProfile(name, fresh) == Profile(fresh, name)

isPlayerProfile(value) ==
    /\ value.truthy
    /\ value.isObject
    /\ value.idIsString
    /\ value.nameIsString
    /\ value.createdAtIsString

\* parsed.filter(isPlayerProfile)
RECURSIVE FilterProfiles(_)
FilterProfiles(list) ==
    IF list = <<>> THEN <<>>
    ELSE IF isPlayerProfile(Head(list))
         THEN <<Head(list)>> \o FilterProfiles(Tail(list))
         ELSE FilterProfiles(Tail(list))

readPlayersUnfiltered(raw) ==
    IF raw.kind \in {"absent", "empty"} THEN [threw |-> FALSE, list |-> <<>>]
    ELSE LET parsed == Parse(raw)
         IN  IF parsed.threw THEN [threw |-> FALSE, list |-> <<>>]
             ELSE IF ~parsed.isArray THEN [threw |-> FALSE, list |-> <<>>]
             ELSE [threw |-> FALSE, list |-> parsed.items]

\* readPlayers on the text stored under "players"
readPlayers(raw) ==
    IF raw.kind \in {"absent", "empty"} THEN [threw |-> FALSE, list |-> <<>>]
    ELSE LET parsed == Parse(raw)
         IN  IF parsed.threw THEN [threw |-> FALSE, list |-> <<>>]
             ELSE IF ~parsed.isArray THEN [threw |-> FALSE, list |-> <<>>]
             ELSE [threw |-> FALSE, list |-> FilterProfiles(parsed.items)]

getScoresUncaught(raw) ==
    IF raw.kind \in {"absent", "empty"} THEN [threw |-> FALSE, list |-> <<>>]
    ELSE LET parsed == Parse(raw)
         IN  IF parsed.threw THEN [threw |-> TRUE, list |-> <<>>]
             ELSE IF ~parsed.isArray THEN [threw |-> FALSE, list |-> <<>>]
             ELSE [threw |-> FALSE, list |-> parsed.items]

\* getScores on the text stored under "scores"
getScoresOf(raw) ==
    IF raw.kind \in {"absent", "empty"} THEN [threw |-> FALSE, list |-> <<>>]
    ELSE LET parsed == Parse(raw)
         IN  IF parsed.threw THEN [threw |-> FALSE, list |-> <<>>]
             ELSE IF ~parsed.isArray THEN [threw |-> FALSE, list |-> <<>>]
             ELSE [threw |-> FALSE, list |-> parsed.items]

\* players.find(...): the index of the first match, 0 for undefined
First(hits) == IF hits = {} THEN 0 ELSE CHOOSE i \in hits : \A j \in hits : i <= j

FindByName(players, trimmed) ==
    First({i \in 1 .. Len(players) :
              toLowerCase(players[i].name) = toLowerCase(trimmed)})

FindById(players, playerId) ==
    First({i \in 1 .. Len(players) : players[i].id = playerId})

AppendUnsorted(existing, sanitized) == Append(existing, sanitized)

\* [...existing, sanitized].sort((a, b) => b.score - a.score): a stable sort,
\* so the new entry goes behind the entries that score at least as much
RECURSIVE InsertSorted(_, _)
InsertSorted(sorted, e) ==
    IF sorted = <<>> THEN <<e>>
    ELSE IF e.score > Head(sorted).score THEN <<e>> \o sorted
    ELSE <<Head(sorted)>> \o InsertSorted(Tail(sorted), e)

RECURSIVE SortDescending(_)
SortDescending(list) ==
    IF list = <<>> THEN <<>>
    ELSE InsertSorted(SortDescending(SubSeq(list, 1, Len(list) - 1)), list[Len(list)])

AppendAndSort(existing, sanitized) == SortDescending(Append(existing, sanitized))

\* ---- the calls in flight.  A call runs from one AsyncStorage operation
\* (an await) to the next in one step; pc names the operation it waits on,
\* after names the caller that getPlayers() returns to.
Slots == {1, 2}

MaxProfiles == 3
MaxScores   == 3

\* a field the object does not have
Undefined == 0 - 1

\* value ?? null
OrNull(value) == IF value = Undefined THEN NoId ELSE value

NoEntry == [score |-> 0, mode |-> "SIMPLE", nickname |-> "", playerId |-> NoId]

IdleTask ==
    [op |-> "idle", pc |-> "done", status |-> "idle", after |-> "none",
     name |-> "", playerId |-> NoId, entry |-> NoEntry,
     players |-> <<>>, target |-> NoProfile,
     result |-> <<>>, resultProfile |-> NoProfile]

StoreIdle ==
    /\ store = [scores |-> Absent, players |-> Absent,
                activePlayer |-> NoId, nickname |-> NoName]
    /\ tasks = [s \in Slots |-> IdleTask]
    /\ nextId = 1

Running(s) == tasks[s].status = "running"
NoneRunning == \A s \in Slots : ~Running(s)

Begin(s, op, pc, after) ==
    [IdleTask EXCEPT !.op = op, !.pc = pc, !.status = "running", !.after = after]

Returned(t) == [t EXCEPT !.status = "returned", !.pc = "done"]
Threw(t)    == [t EXCEPT !.status = "threw", !.pc = "done"]

\* if (!target) throw new Error("Player not found")
TargetNeverMissing(players, playerId) == FALSE

TargetMissing(players, playerId) == FindById(players, playerId) = 0

\* getPlayers() resolves with list inside call s: the caller runs on to its
\* next await
Resume(s, t, list) ==
    CASE t.after = "getPlayers" ->
           /\ tasks' = [tasks EXCEPT ![s] = Returned([t EXCEPT !.result = list])]
           /\ nextId' = nextId
      [] t.after = "addPlayer" ->
           LET existing == FindByName(list, t.name)
               next     == createPlayerProfile(t.name, nextId)
           IN  IF existing # 0
               THEN /\ tasks' = [tasks EXCEPT ![s] =
                                   [t EXCEPT !.playerId = list[existing].id,
                                             !.resultProfile = list[existing],
                                             !.pc = "readPlayers",
                                             !.after = "setActivePlayer"]]
                    /\ nextId' = nextId
               ELSE /\ tasks' = [tasks EXCEPT ![s] =
                                   [t EXCEPT !.players = Append(list, next),
                                             !.playerId = next.id,
                                             !.resultProfile = next,
                                             !.pc = "writePlayers"]]
                    /\ nextId' = nextId + 1
      [] t.after = "setActivePlayer" ->
           /\ tasks' = [tasks EXCEPT ![s] =
                          IF TargetMissing(list, t.playerId)
                          THEN Threw(t)
                          ELSE [t EXCEPT !.target =
                                           IF FindById(list, t.playerId) = 0
                                           THEN Profile(t.playerId, NoName)
                                           ELSE list[FindById(list, t.playerId)],
                                         !.pc = "setActive"]]
           /\ nextId' = nextId
      [] t.after = "getActivePlayer" ->
           /\ tasks' = [tasks EXCEPT ![s] =
                          IF Len(list) = 0
                          THEN Returned(t)
                          ELSE [t EXCEPT !.players = list, !.pc = "readActive"]]
           /\ nextId' = nextId

\* ---- the calls
CallGetPlayers(s) ==
    /\ ~Running(s)
    /\ nextId <= MaxProfiles
    /\ tasks' = [tasks EXCEPT ![s] = Begin(s, "getPlayers", "readPlayers", "getPlayers")]
    /\ UNCHANGED <<store, nextId>>
    /\ UNCHANGED <<scoreVars, gameVars>>

CallAddPlayer(s, name) ==
    /\ ~Running(s)
    /\ nextId + 1 <= MaxProfiles
    /\ LET trimmed == sanitizeName(name)
       IN  tasks' = [tasks EXCEPT ![s] =
                       IF Length(trimmed) < 3
                       THEN Threw(Begin(s, "addPlayer", "done", "addPlayer"))
                       ELSE [Begin(s, "addPlayer", "readPlayers", "addPlayer")
                               EXCEPT !.name = trimmed]]
    /\ UNCHANGED <<store, nextId>>
    /\ UNCHANGED <<scoreVars, gameVars>>

CallSetActivePlayer(s, playerId) ==
    /\ ~Running(s)
    /\ nextId <= MaxProfiles
    /\ tasks' = [tasks EXCEPT ![s] =
                   [Begin(s, "setActivePlayer", "readPlayers", "setActivePlayer")
                      EXCEPT !.playerId = playerId]]
    /\ UNCHANGED <<store, nextId>>
    /\ UNCHANGED <<scoreVars, gameVars>>

CallGetActivePlayer(s) ==
    /\ ~Running(s)
    /\ nextId <= MaxProfiles
    /\ tasks' = [tasks EXCEPT ![s] =
                   Begin(s, "getActivePlayer", "readPlayers", "getActivePlayer")]
    /\ UNCHANGED <<store, nextId>>
    /\ UNCHANGED <<scoreVars, gameVars>>

CallGetScores(s) ==
    /\ ~Running(s)
    /\ tasks' = [tasks EXCEPT ![s] = Begin(s, "getScores", "readScores", "getScores")]
    /\ UNCHANGED <<store, nextId>>
    /\ UNCHANGED <<scoreVars, gameVars>>

BeginSaveScoreEntry(s, entry) ==
    /\ ~Running(s)
    /\ Len(store.scores.items) < MaxScores
    /\ tasks' = [tasks EXCEPT ![s] =
                   [Begin(s, "saveScoreEntry", "readScores", "saveScoreEntry")
                      EXCEPT !.entry = entry]]
    /\ UNCHANGED <<store, nextId>>

CallSaveScoreEntry(s, entry) ==
    /\ BeginSaveScoreEntry(s, entry)
    /\ UNCHANGED <<scoreVars, gameVars>>

\* ---- the awaited AsyncStorage operations
\* readPlayers: getItem(KEY_PLAYERS)
ReadPlayers(s) ==
    /\ Running(s) /\ tasks[s].pc = "readPlayers"
    /\ LET existing == readPlayers(store.players)
       IN  IF existing.threw
           THEN tasks' = [tasks EXCEPT ![s] = Threw(tasks[s])] /\ nextId' = nextId
           ELSE IF Len(existing.list) > 0
           THEN Resume(s, tasks[s], existing.list)
           ELSE /\ tasks' = [tasks EXCEPT ![s].pc = "readNickname"]
                /\ nextId' = nextId
    /\ UNCHANGED store
    /\ UNCHANGED <<scoreVars, gameVars>>

\* getPlayers: getItem(KEY_NICKNAME), the legacy nickname
ReadNickname(s) ==
    /\ Running(s) /\ tasks[s].pc = "readNickname"
    /\ LET legacyName == sanitizeName(store.nickname)
       IN  IF legacyName = ""
           THEN Resume(s, tasks[s], <<>>)
           ELSE /\ tasks' = [tasks EXCEPT ![s].target = createPlayerProfile(legacyName, nextId),
                                          ![s].pc = "writeLegacy"]
                /\ nextId' = nextId + 1
    /\ UNCHANGED store
    /\ UNCHANGED <<scoreVars, gameVars>>

\* getPlayers: writePlayers([legacyPlayer])
WriteLegacy(s) ==
    /\ Running(s) /\ tasks[s].pc = "writeLegacy"
    /\ store' = [store EXCEPT !.players = Stringify(<<tasks[s].target>>)]
    /\ tasks' = [tasks EXCEPT ![s].pc = "setLegacyActive"]
    /\ UNCHANGED nextId
    /\ UNCHANGED <<scoreVars, gameVars>>

\* getPlayers: setItem(KEY_ACTIVE_PLAYER, legacyPlayer.id)
SetLegacyActive(s) ==
    /\ Running(s) /\ tasks[s].pc = "setLegacyActive"
    /\ store' = [store EXCEPT !.activePlayer = tasks[s].target.id]
    /\ Resume(s, tasks[s], <<tasks[s].target>>)
    /\ UNCHANGED <<scoreVars, gameVars>>

\* addPlayer: writePlayers(updated), then setActivePlayer(next.id) begins
WritePlayers(s) ==
    /\ Running(s) /\ tasks[s].pc = "writePlayers"
    /\ store' = [store EXCEPT !.players = Stringify(tasks[s].players)]
    /\ tasks' = [tasks EXCEPT ![s].pc = "readPlayers", ![s].after = "setActivePlayer"]
    /\ UNCHANGED nextId
    /\ UNCHANGED <<scoreVars, gameVars>>

\* setActivePlayer: setItem(KEY_ACTIVE_PLAYER, target.id)
SetActive(s) ==
    /\ Running(s) /\ tasks[s].pc = "setActive"
    /\ store' = [store EXCEPT !.activePlayer = tasks[s].target.id]
    /\ tasks' = [tasks EXCEPT ![s].pc = "setNickname"]
    /\ UNCHANGED nextId
    /\ UNCHANGED <<scoreVars, gameVars>>

\* setActivePlayer: setItem(KEY_NICKNAME, target.name)
SetNickname(s) ==
    /\ Running(s) /\ tasks[s].pc = "setNickname"
    /\ store' = [store EXCEPT !.nickname = tasks[s].target.name]
    /\ tasks' = [tasks EXCEPT ![s] = Returned(tasks[s])]
    /\ UNCHANGED nextId
    /\ UNCHANGED <<scoreVars, gameVars>>

\* const fallback = players[0]
LastAsFallback(players) == players[Len(players)]

Fallback(players) == players[1]

\* getActivePlayer: getItem(KEY_ACTIVE_PLAYER) and the find
ReadActive(s) ==
    /\ Running(s) /\ tasks[s].pc = "readActive"
    /\ LET players == tasks[s].players
           active  == FindById(players, store.activePlayer)
       IN  tasks' = [tasks EXCEPT ![s] =
                       IF active # 0
                       THEN Returned([tasks[s] EXCEPT !.resultProfile = players[active]])
                       ELSE [tasks[s] EXCEPT !.target = Fallback(players),
                                             !.pc = "setFallbackActive"]]
    /\ UNCHANGED <<store, nextId>>
    /\ UNCHANGED <<scoreVars, gameVars>>

\* getActivePlayer: setItem(KEY_ACTIVE_PLAYER, fallback.id)
SetFallbackActive(s) ==
    /\ Running(s) /\ tasks[s].pc = "setFallbackActive"
    /\ store' = [store EXCEPT !.activePlayer = tasks[s].target.id]
    /\ tasks' = [tasks EXCEPT ![s].pc = "setFallbackNickname"]
    /\ UNCHANGED nextId
    /\ UNCHANGED <<scoreVars, gameVars>>

\* getActivePlayer: setItem(KEY_NICKNAME, fallback.name)
SetFallbackNickname(s) ==
    /\ Running(s) /\ tasks[s].pc = "setFallbackNickname"
    /\ store' = [store EXCEPT !.nickname = tasks[s].target.name]
    /\ tasks' = [tasks EXCEPT ![s] = Returned([tasks[s] EXCEPT !.resultProfile = tasks[s].target])]
    /\ UNCHANGED nextId
    /\ UNCHANGED <<scoreVars, gameVars>>

\* getScores: getItem(KEY_SCORES); saveScoreEntry goes on to sort
ReadScores(s) ==
    /\ Running(s) /\ tasks[s].pc = "readScores"
    /\ LET existing == getScoresOf(store.scores)
           sanitized == [tasks[s].entry EXCEPT
                           !.nickname = sanitizeName(tasks[s].entry.nickname),
                           !.playerId = OrNull(tasks[s].entry.playerId)]
       IN  tasks' = [tasks EXCEPT ![s] =
                       IF existing.threw THEN Threw(tasks[s])
                       ELSE IF tasks[s].after = "getScores"
                       THEN Returned([tasks[s] EXCEPT !.result = existing.list])
                       ELSE [tasks[s] EXCEPT !.result = AppendAndSort(existing.list, sanitized),
                                             !.pc = "writeScores"]]
    /\ UNCHANGED <<store, nextId>>
    /\ UNCHANGED <<scoreVars, gameVars>>

\* saveScoreEntry: setItem(KEY_SCORES, JSON.stringify(updated))
WriteScores(s) ==
    /\ Running(s) /\ tasks[s].pc = "writeScores"
    /\ store' = [store EXCEPT !.scores = Stringify(tasks[s].result)]
    /\ tasks' = [tasks EXCEPT ![s] = Returned(tasks[s])]
    /\ UNCHANGED nextId
    /\ UNCHANGED <<scoreVars, gameVars>>

(***************************************************************************)
(* Specifications                                                          *)
(***************************************************************************)
\* ---- GameScreen, mounted in one of the three modes
Init == GameInit /\ scoreCall = ScoreIdle /\ legCall = LegIdle /\ board = BoardIdle /\ StoreIdle
Next == GameNext
Spec == Init /\ [][Next]_vars

\* the timers, the animation and the storage promise do fire; the first
\* layout event does arrive.  Taps, resets and leaving the screen are the
\* player's.
FirstLayout ==
    /\ ~isFieldReady
    /\ \E width \in LayoutWidths, height \in LayoutHeights : handleFieldLayout(width, height)

FairSpec ==
    /\ Init /\ [][Next]_vars
    /\ WF_vars(FirstLayout)
    /\ WF_vars(Elapse)
    /\ WF_vars(ObserveTimeout)
    /\ WF_vars(CountdownTick)
    /\ WF_vars(AnimFinished)
    /\ WF_vars(\E r \in Bodies, ok \in BOOLEAN : SaveNickname(r, ok))
    /\ WF_vars(\E r \in Bodies, ok \in BOOLEAN : SaveSettled(r, ok))

\* ---- calculateScore on drawn inputs
ScoreInitAll == ScoreInit /\ legCall = LegIdle /\ board = BoardIdle /\ GameIdle /\ StoreIdle
ScoreNext == Calculate
ScoreSpec == ScoreInitAll /\ [][ScoreNext]_vars

\* ---- calculateScore on drawn inputs, and as GameScreen calls it
RoundScoreInit ==
    \/ ScoreInitAll
    \/ Init
RoundScoreNext ==
    \/ Calculate
    \/ GameNext
RoundScoreSpec == RoundScoreInit /\ [][RoundScoreNext]_vars

\* ---- storage.ts, one call at a time, from a fresh install or from an
\* install of the nickname-only version
AddNames     == {"ann", " Ann ", "bob", "al"}
ScoreSamples == {0, 400, 900}
Entries ==
    [score : ScoreSamples, mode : {"SIMPLE", "PRO"}, nickname : {" Ann "}, playerId : {NoId}]

\* fresh, or with the legacy nickname only, or left by an addPlayer that the
\* app's exit cut short after writePlayers
StoreInit ==
    /\ \/ /\ store \in [scores : {Absent}, players : {Absent},
                        activePlayer : {NoId}, nickname : {NoName, "zoe"}]
          /\ nextId = 1
       \/ /\ store = [scores |-> Absent, players |-> Stringify(<<Profile(1, "kim")>>),
                      activePlayer |-> NoId, nickname |-> NoName]
          /\ nextId = 2
    /\ tasks = [s \in Slots |-> IdleTask]

StoreInitAll == StoreInit /\ scoreCall = ScoreIdle /\ legCall = LegIdle /\ board = BoardIdle /\ GameIdle

StoreNext ==
    \/ NoneRunning /\ CallGetPlayers(1)
    \/ \E name \in AddNames : NoneRunning /\ CallAddPlayer(1, name)
    \/ \E playerId \in 1 .. MaxProfiles : NoneRunning /\ CallSetActivePlayer(1, playerId)
    \/ NoneRunning /\ CallGetActivePlayer(1)
    \/ NoneRunning /\ CallGetScores(1)
    \/ \E entry \in Entries : NoneRunning /\ CallSaveScoreEntry(1, entry)
    \/ \E s \in Slots : ReadPlayers(s)
    \/ \E s \in Slots : ReadNickname(s)
    \/ \E s \in Slots : WriteLegacy(s)
    \/ \E s \in Slots : SetLegacyActive(s)
    \/ \E s \in Slots : WritePlayers(s)
    \/ \E s \in Slots : SetActive(s)
    \/ \E s \in Slots : SetNickname(s)
    \/ \E s \in Slots : ReadActive(s)
    \/ \E s \in Slots : SetFallbackActive(s)
    \/ \E s \in Slots : SetFallbackNickname(s)
    \/ \E s \in Slots : ReadScores(s)
    \/ \E s \in Slots : WriteScores(s)

StoreSpec == StoreInitAll /\ [][StoreNext]_vars

\* ---- the reads of storage.ts over stored texts of any shape
NullItem     == [NoProfile EXCEPT !.id = 7]
NoDateItem   == [Profile(8, "eve") EXCEPT !.createdAtIsString = FALSE]
NumericIdItem == [Profile(9, "dan") EXCEPT !.idIsString = FALSE]

PlayerTexts ==
    {Absent, EmptyText, GarbageText, ObjectText,
     Stringify(<<>>),
     Stringify(<<NullItem>>),
     Stringify(<<NoDateItem, NumericIdItem>>),
     Stringify(<<Profile(5, "ann")>>),
     Stringify(<<NullItem, Profile(5, "ann"), NoDateItem, Profile(6, "bob")>>)}

ScoreTexts ==
    {Absent, EmptyText, GarbageText, ObjectText,
     Stringify(<<>>),
     Stringify(<<[score |-> 900, mode |-> "PRO", nickname |-> "Ann", playerId |-> NoId]>>)}

CorruptInit ==
    /\ store \in [scores : ScoreTexts, players : PlayerTexts,
                  activePlayer : {NoId, 5}, nickname : {NoName, "zoe"}]
    /\ tasks = [s \in Slots |-> IdleTask]
    /\ nextId = 1

CorruptInitAll == CorruptInit /\ scoreCall = ScoreIdle /\ legCall = LegIdle /\ board = BoardIdle /\ GameIdle

CorruptNext ==
    \/ NoneRunning /\ CallGetPlayers(1)
    \/ NoneRunning /\ CallGetScores(2)
    \/ \E s \in Slots : ReadPlayers(s)
    \/ \E s \in Slots : ReadNickname(s)
    \/ \E s \in Slots : WriteLegacy(s)
    \/ \E s \in Slots : SetLegacyActive(s)
    \/ \E s \in Slots : ReadScores(s)

CorruptSpec == CorruptInitAll /\ [][CorruptNext]_vars

\* ---- getActivePlayer over stored players of any shape and an active id that
\* is absent (NoId), known (5, 6) or unknown (7)
FallbackInit ==
    /\ store \in [scores : {Absent}, players : PlayerTexts,
                  activePlayer : {NoId, 5, 6, 7}, nickname : {NoName, "zoe", "ann"}]
    /\ tasks = [s \in Slots |-> IdleTask]
    /\ nextId = 1

FallbackInitAll == FallbackInit /\ scoreCall = ScoreIdle /\ legCall = LegIdle /\ board = BoardIdle /\ GameIdle

FallbackNext ==
    \/ NoneRunning /\ CallGetActivePlayer(1)
    \/ \E s \in Slots : ReadPlayers(s)
    \/ \E s \in Slots : ReadNickname(s)
    \/ \E s \in Slots : WriteLegacy(s)
    \/ \E s \in Slots : SetLegacyActive(s)
    \/ \E s \in Slots : ReadActive(s)
    \/ \E s \in Slots : SetFallbackActive(s)
    \/ \E s \in Slots : SetFallbackNickname(s)

FallbackSpec == FallbackInitAll /\ [][FallbackNext]_vars

\* ---- the end of a round with its save: GameScreen's tap and save effect
\* over storage.ts.  The install has profiles; the active id is set, or was
\* never written (an addPlayer cut short after writePlayers).
SaveRoundStores ==
    LET kim == Profile(1, "kim")
        ann == Profile(2, "ann")
    IN  { [scores |-> sc, players |-> Stringify(c.players),
           activePlayer |-> c.active, nickname |-> c.nickname] :
            sc \in {Absent, GarbageText},
            c \in { [players |-> <<kim>>, active |-> 1, nickname |-> "kim"],
                    [players |-> <<kim>>, active |-> NoId, nickname |-> NoName],
                    [players |-> <<kim, ann>>, active |-> 1, nickname |-> "kim"],
                    [players |-> <<kim, ann>>, active |-> 2, nickname |-> "ann"] } }

\* the payload of the save effect (lines 629-642)
Payload(nickname) ==
    [score |-> result.score, mode |-> mode, nickname |-> nickname,
     playerId |-> Undefined]

\* (await getNickname()) ?? "anon", with getNickname() = active?.name ?? null
NicknameOrAnon(active) == IF active.name = NoName THEN "anon" ELSE active.name

\* 'guess' on a laid-out field, the reaction clock running
SaveRoundInit ==
    /\ scoreCall = ScoreIdle /\ legCall = LegIdle /\ board = BoardIdle
    /\ mounted = TRUE
    /\ mode \in Modes
    /\ phase = "guess"
    /\ countdown = 1
    /\ current = 0
    /\ result = NoResult
    /\ fieldSize = [ready |-> TRUE, width |-> SCREEN_W, height |-> SCREEN_H]
    /\ observeTimer = FALSE
    /\ countdownInterval = FALSE
    /\ activeSave = FALSE
    /\ \E draw \in StartDraws(Bounds(SCREEN_W, SCREEN_H)) :
           /\ draw.x = EDGE_PADDING
           /\ draw.y = EDGE_PADDING
           /\ motion = start(BoundsEffect(MotionInit(SCREEN_W, SCREEN_H),
                                          Bounds(SCREEN_W, SCREEN_H)),
                             SCREEN_W, SCREEN_H, mode, draw)
    /\ lastTouchRef = NoTouch
    /\ saveRuns = <<>>
    /\ ticksFired = COUNTDOWN_STEPS
    /\ resultsThisRound = 0
    /\ saveRejected = FALSE
    /\ observeClock = NoClock
    /\ startRefSet = TRUE
    /\ store \in SaveRoundStores
    /\ tasks = [s \in Slots |-> IdleTask]
    /\ nextId = MaxProfiles

\* the body of the save effect calls getNickname()
SaveCallsGetNickname ==
    /\ Len(saveRuns) = 1
    /\ saveRuns[1].stage = "nickname"
    /\ tasks[1].op = "idle"
    /\ CallGetActivePlayer(1)

\* getNickname() resolves: the payload is built and saveScoreEntry(payload)
\* called
SaveCallsSaveScoreEntry ==
    /\ tasks[1].op = "getActivePlayer"
    /\ tasks[1].status = "returned"
    /\ SaveNicknameCore(1, TRUE)
    /\ BeginSaveScoreEntry(1, Payload(NicknameOrAnon(tasks[1].resultProfile)))
    /\ UNCHANGED scoreVars

\* saveScoreEntry(payload) settles
SaveScoreEntrySettles ==
    /\ tasks[1].op = "saveScoreEntry"
    /\ tasks[1].status \in {"returned", "threw"}
    /\ SaveSettledCore(1, tasks[1].status = "returned")
    /\ UNCHANGED <<scoreVars, storeVars>>

SaveRoundNext ==
    \/ \E x \in TouchXs, y \in TouchYs, reactionMs \in Reactions :
          handleGuess(x, y, reactionMs)
    \/ SaveCallsGetNickname
    \/ ReadPlayers(1)
    \/ ReadActive(1)
    \/ SetFallbackActive(1)
    \/ SetFallbackNickname(1)
    \/ SaveCallsSaveScoreEntry
    \/ ReadScores(1)
    \/ WriteScores(1)
    \/ SaveScoreEntrySettles

SaveRoundSpec == SaveRoundInit /\ [][SaveRoundNext]_vars

\* ---- one leg of the motion with the speeds of the source.  Time is counted
\* in ticks, chosen so that a pixel takes a whole number of ticks at each
\* speed that occurs (144, 190, 192 and 240 px/s).
HORIZONTAL_SPEED == 190
DIAGONAL_SPEED   == 240

TicksPerMs     == 1368
TicksPerSecond == 1000 * TicksPerMs

\* travel(): Math.max(220, (distance / HORIZONTAL_SPEED) * 1000)
UnflooredNormalDuration(distance) == (distance * TicksPerSecond) \div HORIZONTAL_SPEED

NormalDuration(distance) ==
    Max(220 * TicksPerMs, (distance * TicksPerSecond) \div HORIZONTAL_SPEED)

\* travelWithBounces(): timeToX, timeToY, candidates, nextTime (fin = FALSE:
\* Infinity)
NextTime(originX, originY, vx, vy, b) ==
    LET timeToX == computeTime(originX * TicksPerSecond, vx,
                               b.minX * TicksPerSecond, b.maxX * TicksPerSecond)
        timeToY == computeTime(originY * TicksPerSecond, vy,
                               b.minY * TicksPerSecond, b.maxY * TicksPerSecond)
        candidates == {c \in {timeToX, timeToY} : c.fin /\ c.t > 0}
    IN  IF candidates = {} THEN [fin |-> FALSE, t |-> 0]
        ELSE CHOOSE c \in candidates : \A d \in candidates : c.t <= d.t

\* travelWithBounces(): Math.max(160, nextTime * 1000)
ProDuration(nextTime) == Max(160 * TicksPerMs, nextTime)

\* the points of an axis that legs are started from
MaxLegPoints == 4
NearWall     == 10
LegPoints(min, max) ==
    {min + ((max - min) * k) \div MaxLegPoints : k \in 0 .. MaxLegPoints}
    \cup {clamp(min + NearWall, min, max), clamp(max - NearWall, min, max)}

LegWidths  == {2 * EDGE_PADDING, 150, 360}
LegHeights == {2 * EDGE_PADDING, 640}

\* the velocities start() draws: a direction of length DIAGONAL_SPEED when both
\* axes can move (those with rational components), one axis otherwise
LegVelocities(b) ==
    LET u == DIAGONAL_SPEED \div 5
    IN  IF b.canMoveX /\ b.canMoveY
        THEN {<<sx * c[1] * u, sy * c[2] * u>> :
                  sx \in {-1, 1}, sy \in {-1, 1}, c \in {<<3, 4>>, <<4, 3>>}}
        ELSE IF b.canMoveX THEN {<<DIAGONAL_SPEED, 0>>, <<0 - DIAGONAL_SPEED, 0>>}
        ELSE IF b.canMoveY THEN {<<0, DIAGONAL_SPEED>>, <<0, 0 - DIAGONAL_SPEED>>}
        ELSE {}

\* a leg about to start: NORMAL from x towards the far bound, PRO from
\* <<x, y>> with a velocity that start() has turned away from the walls
LegInit ==
    \E width \in LegWidths, height \in LegHeights :
        LET b == Bounds(width, height)
        IN  \/ /\ b.canMoveX
               /\ \E px \in LegPoints(b.minX, b.maxX) :
                      legCall = [LegIdle EXCEPT !.mode = "NORMAL", !.live = TRUE,
                                                !.width = width, !.height = height,
                                                !.x = px, !.y = b.centerY]
            \/ \E px \in LegPoints(b.minX, b.maxX), py \in LegPoints(b.minY, b.maxY),
                   v \in LegVelocities(b) :
                      legCall = [LegIdle EXCEPT
                                   !.mode = "PRO", !.live = TRUE,
                                   !.width = width, !.height = height,
                                   !.x = px, !.y = py,
                                   !.vx = StartV(b.canMoveX, px, v[1], b.minX, b.maxX),
                                   !.vy = StartV(b.canMoveY, py, v[2], b.minY, b.maxY)]

LegInitAll == LegInit /\ scoreCall = ScoreIdle /\ board = BoardIdle /\ GameIdle /\ StoreIdle

\* travel(firstTarget) of NORMAL mode
NormalLeg ==
    /\ legCall.live /\ ~legCall.done /\ legCall.mode = "NORMAL"
    /\ LET b        == Bounds(legCall.width, legCall.height)
           nextX    == IF 2 * legCall.x > b.minX + b.maxX THEN b.minX ELSE b.maxX
           distance == Abs(nextX - legCall.x)
       IN  legCall' = [legCall EXCEPT !.distance = distance,
                                      !.duration = NormalDuration(distance),
                                      !.done = TRUE]
    /\ UNCHANGED <<scoreCall, board, gameVars, storeVars>>

\* travelWithBounces() of PRO mode
ProLeg ==
    /\ legCall.live /\ ~legCall.done /\ legCall.mode = "PRO"
    /\ LET b    == Bounds(legCall.width, legCall.height)
           next == NextTime(legCall.x, legCall.y, legCall.vx, legCall.vy, b)
       IN  /\ next.fin
           /\ legCall' = [legCall EXCEPT !.nextTime = next.t,
                                         !.duration = ProDuration(next.t),
                                         !.done = TRUE]
    /\ UNCHANGED <<scoreCall, board, gameVars, storeVars>>

LegNext ==
    \/ NormalLeg
    \/ ProLeg

LegSpec == LegInitAll /\ [][LegNext]_vars

\* ---- PlayersScreen.load on an install of the nickname-only version:
\* Promise.all([getPlayers(), getActivePlayer()]), the two calls interleaving
\* at their awaits
LegacyNames == {"zoe", "ann", "kim", " Ann "}

LoadInit ==
    /\ store \in [scores : {Absent}, players : {Absent},
                   activePlayer : {NoId}, nickname : LegacyNames]
    /\ tasks = [s \in Slots |-> IdleTask]
    /\ nextId = 1

LoadInitAll == LoadInit /\ scoreCall = ScoreIdle /\ legCall = LegIdle /\ board = BoardIdle /\ GameIdle

\* load(): both calls are made before either's first await resolves
load ==
    /\ \A s \in Slots : tasks[s].op = "idle"
    /\ tasks' = [tasks EXCEPT
                   ![1] = Begin(1, "getPlayers", "readPlayers", "getPlayers"),
                   ![2] = Begin(2, "getActivePlayer", "readPlayers", "getActivePlayer")]
    /\ UNCHANGED <<store, nextId>>
    /\ UNCHANGED <<scoreVars, gameVars>>

LoadNext ==
    \/ load
    \/ \E s \in Slots : ReadPlayers(s)
    \/ \E s \in Slots : ReadNickname(s)
    \/ \E s \in Slots : WriteLegacy(s)
    \/ \E s \in Slots : SetLegacyActive(s)
    \/ \E s \in Slots : ReadActive(s)
    \/ \E s \in Slots : SetFallbackActive(s)
    \/ \E s \in Slots : SetFallbackNickname(s)

LoadSpec == LoadInitAll /\ [][LoadNext]_vars

\* ---- two addPlayer calls with different names, the second made while the
\* first may still be at one of its awaits; the install is fresh or has one
\* active profile
FirstName  == "ann"
SecondName == "bob"

OverlapInit ==
    /\ \/ /\ store = [scores |-> Absent, players |-> Absent,
                       activePlayer |-> NoId, nickname |-> NoName]
          /\ nextId = 1
       \/ /\ store = [scores |-> Absent, players |-> Stringify(<<Profile(1, "kim")>>),
                       activePlayer |-> 1, nickname |-> "kim"]
          /\ nextId = 2
    /\ tasks = [s \in Slots |-> IdleTask]

OverlapInitAll == OverlapInit /\ scoreCall = ScoreIdle /\ legCall = LegIdle /\ board = BoardIdle /\ GameIdle

OverlapNext ==
    \/ tasks[1].op = "idle" /\ CallAddPlayer(1, FirstName)
    \/ tasks[2].op = "idle" /\ CallAddPlayer(2, SecondName)
    \/ \E s \in Slots : ReadPlayers(s)
    \/ \E s \in Slots : ReadNickname(s)
    \/ \E s \in Slots : WritePlayers(s)
    \/ \E s \in Slots : SetActive(s)
    \/ \E s \in Slots : SetNickname(s)

OverlapSpec == OverlapInitAll /\ [][OverlapNext]_vars

\* ---- LeaderboardScreen over a store with scores, the list kept sorted by
\* saveScoreEntry, and one active profile
ScoreLists ==
    UNION { { [i \in 1 .. n |->
                 [score |-> (n - i) * 300, mode |-> f[i], nickname |-> "kim",
                  playerId |-> NoId]] : f \in [1 .. n -> Modes] } : n \in 0 .. MaxScores }

\* the effect on [data, activeMode] (lines 220-225), run until it settles
ActiveModeEffect(data, activeMode) ==
    IF Len(data) = 0 THEN activeMode
    ELSE IF \E i \in 1 .. Len(data) : data[i].mode = activeMode THEN activeMode
    ELSE data[1].mode

RECURSIVE Filter(_, _)
Filter(data, gameMode) ==
    IF data = <<>> THEN <<>>
    ELSE IF Head(data).mode = gameMode
    THEN <<Head(data)>> \o Filter(Tail(data), gameMode)
    ELSE Filter(Tail(data), gameMode)

\* data.filter((entry) => entry.mode === activeMode)
modeData == Filter(board.data, board.activeMode)

\* [...modeData].sort(comparators.score)
sortedModeData == SortDescending(modeData)

\* FlatList: ListEmptyComponent is rendered when the list has no rows
emptyComponentShown == ~board.loading /\ sortedModeData = <<>>

BoardInit ==
    /\ board = BoardIdle
    /\ \E list \in ScoreLists :
           store = [scores |-> IF list = <<>> THEN Absent ELSE Stringify(list),
                    players |-> Stringify(<<Profile(1, "kim")>>),
                    activePlayer |-> 1, nickname |-> "kim"]
    /\ tasks = [s \in Slots |-> IdleTask]
    /\ nextId = 2

BoardInitAll == BoardInit /\ scoreCall = ScoreIdle /\ legCall = LegIdle /\ GameIdle

\* loadScores(), on focus: setLoading(true); Promise.all([getScores(),
\* getActivePlayer()])
loadScores ==
    /\ \A s \in Slots : ~Running(s)
    /\ board' = [board EXCEPT !.loading = TRUE]
    /\ tasks' = [tasks EXCEPT
                   ![1] = Begin(1, "getScores", "readScores", "getScores"),
                   ![2] = Begin(2, "getActivePlayer", "readPlayers", "getActivePlayer")]
    /\ UNCHANGED <<store, nextId>>
    /\ UNCHANGED <<scoreCall, legCall, gameVars>>

\* both promises are fulfilled: setData(savedScores), setLoading(false), and
\* the effect on [data, activeMode]
ScoresLoaded ==
    /\ board.loading
    /\ tasks[1].op = "getScores" /\ tasks[1].status = "returned"
    /\ tasks[2].op = "getActivePlayer" /\ tasks[2].status = "returned"
    /\ board' = [board EXCEPT
                   !.loading = FALSE,
                   !.data = tasks[1].result,
                   !.activeMode = ActiveModeEffect(tasks[1].result, board.activeMode)]
    /\ tasks' = [s \in Slots |-> IdleTask]
    /\ UNCHANGED <<store, nextId>>
    /\ UNCHANGED <<scoreCall, legCall, gameVars>>

\* a mode tab: onPress={() => setActiveMode(mode)}, and the effect
PressModeTab(gameMode) ==
    /\ ~board.loading
    /\ board' = [board EXCEPT
                   !.activeMode = ActiveModeEffect(board.data, gameMode),
                   !.pressed = gameMode]
    /\ UNCHANGED <<scoreCall, legCall, gameVars, storeVars>>

BoardNext ==
    \/ loadScores
    \/ ReadScores(1)
    \/ ReadPlayers(2)
    \/ ReadActive(2)
    \/ ScoresLoaded
    \/ \E gameMode \in Modes : PressModeTab(gameMode)

BoardSpec == BoardInitAll /\ [][BoardNext]_vars

(***************************************************************************)
(* Claims                                                                  *)
(***************************************************************************)

\* C1: the phase becomes 'guess' only from 'countdown', and only when the
\* countdown interval has fired COUNTDOWN_STEPS times since 'countdown' was
\* entered.
C1_GuessAfterCountdown ==
    [][(phase' = "guess" /\ phase # "guess") =>
          (phase = "countdown" /\ ticksFired' = COUNTDOWN_STEPS /\ COUNTDOWN_STEPS = 3)]_vars

\* 'guess' was entered, the interval is cleared
C1_Witness ==
    /\ mounted
    /\ phase = "guess"
    /\ ticksFired = COUNTDOWN_STEPS
    /\ ~countdownInterval
    /\ ~result.present

\* C2 (as stated): every round reaches the 'result' phase, and exactly once.
C2_RoundAlwaysReachesResult ==
    /\ [](resultsThisRound <= 1)
    /\ []((mounted /\ phase = "observe") => <>(phase = "result" \/ ~mounted))

\* C2 (amended): a round reaches the 'result' phase at most once, and only by
\* a tap during 'guess'; the phase is 'result' exactly while the round's single
\* result is recorded, and the recorded score, distance and reaction time do
\* not change until the reset.
C2_ResultAtMostOnce ==
    /\ [](/\ resultsThisRound <= 1
          /\ (phase = "result") <=> (resultsThisRound = 1)
          /\ result.present <=> (phase = "result"))
    /\ [][/\ (phase' = "result" /\ phase # "result") =>
                 (phase = "guess" /\ ~result.present /\ result'.present)
          /\ (result.present /\ result'.present) =>
                 /\ result'.score = result.score
                 /\ result'.distancePx = result.distancePx
                 /\ result'.reactionMs = result.reactionMs
         ]_vars

\* the round's result was recorded and its save settled
C2_Witness ==
    /\ mounted
    /\ phase = "result"
    /\ resultsThisRound = 1
    /\ result.present
    /\ result.saveState = "saved"

PhaseChanges ==
    {<<"observe", "countdown">>, <<"countdown", "guess">>,
     <<"guess", "result">>, <<"result", "observe">>}

\* C3: the phase changes only by observe->countdown, countdown->guess,
\* guess->result and result->observe, the last one by resetGame (which clears
\* the result and sets the countdown back to COUNTDOWN_STEPS).
C3_PhaseTransitions ==
    [][phase' # phase =>
          /\ <<phase, phase'>> \in PhaseChanges
          /\ phase = "result" =>
                 (~result'.present /\ countdown' = COUNTDOWN_STEPS /\ resultsThisRound' = 0)
      ]_vars

\* a second round began after a first one went through every phase
C3_Witness ==
    /\ mounted
    /\ phase = "observe"
    /\ observeTimer
    /\ ticksFired = COUNTDOWN_STEPS
    /\ resultsThisRound = 0

InBounds(px, py, b) ==
    /\ b.minX <= px /\ px <= b.maxX
    /\ b.minY <= py /\ py <= b.maxY

\* C4: in every mode the tracked position lies within the padded bounds of the
\* current field size, and so does every position stop() returns (the target
\* of a result, at the time it is recorded).
C4_PositionWithinBounds ==
    /\ [](mounted => InBounds(motion.x, motion.y, Bounds(fieldWidth, fieldHeight)))
    /\ [][(~result.present /\ result'.present) =>
             InBounds(result'.targetX, result'.targetY, Bounds(fieldWidth', fieldHeight'))]_vars

\* the field shrank during the blackout of a PRO round that had been moving
C4_Witness ==
    /\ mounted
    /\ mode = "PRO"
    /\ phase = "countdown"
    /\ isFieldReady
    /\ motion.w > fieldWidth
    /\ motion.vx = 0
    /\ motion.x = Bounds(fieldWidth, fieldHeight).maxX

\* C5: calculateScore returns a score from 0 to 1000 for every distance >= 0,
\* every reaction time and every maxDistance >= 1, and so does every result a
\* round of GameScreen records.
C5_ScoreWithinRange ==
    /\ scoreCall.done => scoreCall.score \in 0 .. 1000
    /\ result.present => result.score \in 0 .. 1000

\* a call that reaches the floor 0, and a round that recorded a result
C5_Witness ==
    \/ /\ scoreCall.done
       /\ scoreCall.score = 0
       /\ scoreCall.distancePx > scoreCall.maxDistance
    \/ /\ result.present
       /\ result.score > 0
       /\ result.distancePx > 0

\* C6: for a fixed maxDistance the score does not grow with the distance nor
\* with the reaction time, and up to the 150 ms grace threshold the reaction
\* time does not change it.
C6_ScoreMonotone ==
    scoreCall.done =>
        LET d == scoreCall.distancePx
            t == scoreCall.reactionMs
            m == scoreCall.maxDistance
        IN  /\ \A d2 \in Distances :
                   d <= d2 => scoreCall.score >= calculateScore(d2, t, m)
            /\ \A t2 \in ReactionTimes :
                   t <= t2 => scoreCall.score >= calculateScore(d, t2, m)
            /\ \A t2 \in ReactionTimes :
                   (t <= 150 /\ t2 <= 150) => scoreCall.score = calculateScore(d, t2, m)

\* a call below the grace threshold with a distance penalty
C6_Witness ==
    /\ scoreCall.done
    /\ scoreCall.reactionMs < 150
    /\ scoreCall.distancePx > 0
    /\ scoreCall.score \in 1 .. 999

\* C7: the score is max(0, round(v)) for
\* v = 1000 - 650 * min(distancePx, maxDistance) / maxDistance
\*          - 0.4 * max(0, reactionMs - 150):
\* it is 0 when v < 1/2 and otherwise the integer s with s - 1/2 <= v < s + 1/2.
\* v is the fraction n / (10 * maxDistance).
C7_ScoreFormula ==
    scoreCall.done =>
        LET d == scoreCall.distancePx
            t == scoreCall.reactionMs
            m == scoreCall.maxDistance
            s == scoreCall.score
            n == 10000 * m - 6500 * (IF d < m THEN d ELSE m)
                 - 4 * (IF t > 150 THEN t - 150 ELSE 0) * m
        IN  IF 2 * n < 10 * m
            THEN s = 0
            ELSE (2 * s - 1) * 10 * m <= 2 * n /\ 2 * n < (2 * s + 1) * 10 * m

\* a call whose v lies exactly halfway between two integers
C7_Witness ==
    /\ scoreCall.done
    /\ scoreCall.score > 0
    /\ scoreCall.reactionMs > 150
    /\ (2 * scoreCall.score - 1) * 10 * scoreCall.maxDistance
         = 2 * RawScoreNum(scoreCall.distancePx, scoreCall.reactionMs, scoreCall.maxDistance)

\* C8: the list stored under "scores" is sorted by score, highest first.
C8_ScoresSortedDescending ==
    store.scores.kind = "json" =>
        \A i \in 1 .. (Len(store.scores.items) - 1) :
            store.scores.items[i].score >= store.scores.items[i + 1].score

\* the entry saved last stands first in a list of three
C8_Witness ==
    /\ Len(store.scores.items) = 3
    /\ tasks[1].op = "saveScoreEntry" /\ tasks[1].status = "returned"
    /\ store.scores.items[1].score = tasks[1].entry.score
    /\ store.scores.items[1].score > store.scores.items[2].score

StoredPlayers == readPlayers(store.players).list

\* C9: with every call run to completion, a stored active player id is the id
\* of a profile in the stored players list.
C9_ActiveReferencesProfile ==
    (NoneRunning /\ store.activePlayer # NoId) =>
        \E i \in 1 .. Len(StoredPlayers) : StoredPlayers[i].id = store.activePlayer

\* setActivePlayer went back to the first of two profiles
C9_Witness ==
    /\ NoneRunning
    /\ tasks[1].op = "setActivePlayer" /\ tasks[1].status = "returned"
    /\ Len(StoredPlayers) >= 2
    /\ store.activePlayer = StoredPlayers[1].id

\* a stored text that is no JSON array
Malformed(raw) == raw.kind # "json" \/ ~raw.isArray

\* C10: a read of "scores" or "players" does not throw; it gives the empty
\* list when the stored text is no JSON array, and the players read gives
\* exactly the well-formed profiles of the stored array, in order.
C10_MalformedReadAsEmpty ==
    [][\A s \in Slots :
          /\ tasks'[s].status # "threw"
          /\ (tasks[s].pc = "readScores" /\ tasks'[s].pc # "readScores") =>
                 /\ Malformed(store.scores) => tasks'[s].result = <<>>
                 /\ ~Malformed(store.scores) => tasks'[s].result = store.scores.items
          /\ (tasks[s].pc = "readPlayers" /\ tasks'[s].pc = "readNickname") =>
                 \A i \in 1 .. Len(store.players.items) :
                     ~isPlayerProfile(store.players.items[i])
          /\ (tasks[s].pc = "readPlayers" /\ tasks'[s].pc = "done") =>
                 /\ ~Malformed(store.players)
                 /\ \A i \in 1 .. Len(tasks'[s].result) : isPlayerProfile(tasks'[s].result[i])
                 /\ \A i \in 1 .. Len(store.players.items) :
                        isPlayerProfile(store.players.items[i]) =>
                            \E j \in 1 .. Len(tasks'[s].result) :
                                tasks'[s].result[j] = store.players.items[i]
      ]_vars

\* getPlayers dropped two of four stored elements, and getScores read text
\* that is no JSON
C10_Witness ==
    /\ tasks[1].op = "getPlayers" /\ tasks[1].status = "returned"
    /\ Len(tasks[1].result) = 2
    /\ Len(store.players.items) = 4
    /\ tasks[2].op = "getScores" /\ tasks[2].status = "returned"
    /\ tasks[2].result = <<>>
    /\ store.scores = GarbageText

\* the call in slot s is getActivePlayer and getPlayers() gave it a list
InGetActive(s) == tasks[s].op = "getActivePlayer"

\* C11: when the list getPlayers() gives is non-empty and the stored active id
\* is absent or matches no profile of it, getActivePlayer persists players[0]'s
\* id as the active player and its name as the nickname and returns
\* players[0]; when the list is empty it returns null and writes nothing.
C11_FallbackToFirstProfile ==
    [][\A s \in Slots : InGetActive(s) =>
          LET t == tasks[s]
              u == tasks'[s]
          IN  /\ (t.pc = "readActive" /\ u.pc # "readActive") =>
                    /\ Len(t.players) > 0
                    /\ IF \E i \in 1 .. Len(t.players) : t.players[i].id = store.activePlayer
                       THEN u.status = "returned" /\ u.resultProfile.id = store.activePlayer
                       ELSE u.status = "running" /\ u.pc = "setFallbackActive"
              /\ (t.pc = "setFallbackActive" /\ u.pc # "setFallbackActive") =>
                    /\ store' = [store EXCEPT !.activePlayer = t.players[1].id]
                    /\ u.status = "running" /\ u.pc = "setFallbackNickname"
              /\ (t.pc = "setFallbackNickname" /\ u.pc # "setFallbackNickname") =>
                    /\ store' = [store EXCEPT !.nickname = t.players[1].name]
                    /\ store'.activePlayer = t.players[1].id
                    /\ u.status = "returned" /\ u.resultProfile = t.players[1]
              /\ (t.status = "running" /\ u.status = "returned"
                    /\ t.pc \in {"readPlayers", "readNickname"}) =>
                    /\ u.resultProfile = NoProfile
                    /\ StoredPlayers = <<>>
                    /\ store' = store
      ]_vars

\* the stored id 7 matched neither of two profiles: the first one is active
C11_Witness ==
    /\ tasks[1].op = "getActivePlayer" /\ tasks[1].status = "returned"
    /\ Len(tasks[1].players) = 2
    /\ tasks[1].target = tasks[1].players[1]
    /\ tasks[1].resultProfile = tasks[1].players[1]
    /\ store.activePlayer = tasks[1].players[1].id
    /\ store.nickname = tasks[1].players[1].name
    /\ store.nickname # "zoe"

\* a body of the save effect calls saveScoreEntry(payload) in this step
SaveInvoked ==
    /\ Len(saveRuns') = Len(saveRuns)
    /\ \E r \in DOMAIN saveRuns :
           saveRuns[r].stage = "nickname" /\ saveRuns'[r].stage = "saving"

\* C12: when getNickname() or saveScoreEntry() rejects for a round, the
\* round's saveState goes from 'pending' to 'error', and saveScoreEntry is not
\* called again for that round.
C12_FailedSaveSurfacesError ==
    [][/\ (~saveRejected /\ saveRejected') =>
              (result.saveState = "pending" /\ result'.saveState = "error")
       /\ saveRejected => ~SaveInvoked
      ]_vars

\* C13 (as stated): at most one of the observe timeout and the countdown
\* interval is pending; once the screen has unmounted or left the phase that
\* scheduled it, no timer and no animation callback changes the phase, the
\* countdown or the target motion.
C13_SingleTimerAndNoLateCallback ==
    /\ [](/\ ~(observeTimer /\ countdownInterval)
          /\ observeTimer => (mounted /\ phase = "observe")
          /\ countdownInterval => (mounted /\ phase = "countdown"))
    /\ [][~mounted => UNCHANGED <<phase, countdown, motion>>]_vars
    /\ [][AnimFinished => phase = "observe"]_vars

\* C13 (amended): at most one of the two timers is pending, and a timer is
\* pending only while the screen is mounted in the phase that scheduled it, so
\* that no timer changes the phase or the countdown later; nothing changes
\* phase, countdown or motion after unmount; the animation started in
\* 'observe' keeps running through 'countdown' and 'guess', and its callbacks
\* act only while the motion is running on a mounted screen before the result.
C13_TimersCancelled ==
    /\ [](/\ ~(observeTimer /\ countdownInterval)
          /\ observeTimer => (mounted /\ phase = "observe")
          /\ countdownInterval => (mounted /\ phase = "countdown"))
    /\ [][~mounted => UNCHANGED <<phase, countdown, motion>>]_vars
    /\ [][AnimFinished => (mounted /\ motion.running /\ phase # "result")]_vars

\* unmounted in the middle of the countdown of a PRO round: the interval is
\* cleared and the motion stopped
C13_Witness ==
    /\ ~mounted
    /\ mode = "PRO"
    /\ phase = "countdown"
    /\ countdown = 2
    /\ ~countdownInterval /\ ~observeTimer
    /\ ~motion.running /\ ~motion.animating

\* C14: every score entry written by a finished round carries the playerId
\* of the active profile, and that profile's name as nickname.
C14_ScoreCarriesActivePlayer ==
    \A i \in 1 .. Len(store.scores.items) :
        LET entry == store.scores.items[i]
            at    == FindById(StoredPlayers, store.activePlayer)
        IN  /\ at # 0
            /\ entry.playerId = StoredPlayers[at].id
            /\ entry.nickname = StoredPlayers[at].name

\* C15: the round is ended (phase 'result') only by a tap taken during
\* 'guess' on a laid-out field; a press-in, and a press in any other phase or
\* before the layout, leave phase, countdown, result and target motion as they
\* were, and a press-in is remembered only during 'guess'.
C15_OnlyGuessTapEndsRound ==
    [][/\ (phase # "result" /\ phase' = "result")
            => (mounted /\ phase = "guess" /\ isFieldReady
                /\ resultsThisRound' = resultsThisRound + 1)
       /\ ((\E x \in TouchXs, y \in TouchYs : handlePressIn(x, y))
           \/ (~TapAccepted /\ \E x \in TouchXs, y \in TouchYs, reactionMs \in Reactions :
                                  handleGuess(x, y, reactionMs)))
            => UNCHANGED <<phase, countdown, result, motion>>
       /\ lastTouchRef'.set /\ lastTouchRef' # lastTouchRef
            => (phase = "guess" /\ isFieldReady)
      ]_vars

\* a NORMAL round ended by the tap that followed the three ticks
C15_Witness ==
    /\ mounted
    /\ mode = "NORMAL"
    /\ phase = "result"
    /\ isFieldReady
    /\ result.present
    /\ resultsThisRound = 1
    /\ ticksFired = COUNTDOWN_STEPS
    /\ ~motion.running

\* the field leaves the mode's target room to move
CanMove(gameMode, b) ==
    IF gameMode = "NORMAL" THEN b.canMoveX ELSE b.canMoveX \/ b.canMoveY

\* C16: in NORMAL and PRO mode the target keeps moving through 'observe',
\* 'countdown' and 'guess' (on a laid-out field that leaves it room): the
\* motion is stopped only by the tap or by unmount, and the target position
\* of the result is the motion's position at the time of the tap.
C16_TargetMovesUntilTap ==
    /\ []((/\ mounted
           /\ mode \in {"NORMAL", "PRO"}
           /\ phase \in {"observe", "countdown", "guess"}
           /\ isFieldReady
           /\ CanMove(mode, Bounds(fieldWidth, fieldHeight)))
          => (motion.running /\ motion.animating))
    /\ [][(/\ motion.running /\ ~motion'.running
           /\ CanMove(mode, Bounds(WidthOf(fieldSize'), HeightOf(fieldSize'))))
            => ((phase = "guess" /\ phase' = "result") \/ ~mounted')]_vars
    /\ [][(phase = "guess" /\ phase' = "result")
            => (result'.targetX = motion.x /\ result'.targetY = motion.y)]_vars

\* C17: 'countdown' begins exactly OBSERVE_DURATION after the observe phase
\* started on the laid-out field, and start() is invoked once per round,
\* whatever layout events arrive during 'observe'.
C17_ObserveLastsObserveDuration ==
    /\ [][(phase = "observe" /\ phase' = "countdown")
            => (observeClock.age = OBSERVE_DURATION /\ observeClock.starts = 1)]_vars
    /\ [](observeClock.starts <= 1)

\* C18: during 'countdown' the displayed counter starts at COUNTDOWN_STEPS (3)
\* and goes down by exactly 1 on each firing of the interval while it stays
\* above 0; the third firing clears the interval, starts the reaction clock
\* and sets the phase to 'guess'; the displayed counter is never 0 or
\* negative, and the interval is not pending once 'guess' is entered.
C18_CountdownThreeTwoOne ==
    /\ [](countdown \in 1 .. COUNTDOWN_STEPS)
    /\ [](phase = "countdown" => countdown = COUNTDOWN_STEPS - ticksFired)
    /\ [](countdownInterval => (phase = "countdown" /\ ticksFired < COUNTDOWN_STEPS))
    /\ []((phase = "guess" /\ mounted) => (startRefSet /\ ~countdownInterval))
    /\ [][(phase # "countdown" /\ phase' = "countdown")
            => (countdown' = 3 /\ ticksFired' = 0 /\ countdownInterval')]_vars
    /\ [][(phase = "countdown" /\ ticksFired' = ticksFired + 1)
            => IF ticksFired' < 3
               THEN /\ countdown' = countdown - 1
                    /\ phase' = "countdown"
                    /\ countdownInterval'
               ELSE /\ countdown' = countdown
                    /\ phase' = "guess"
                    /\ startRefSet'
                    /\ ~countdownInterval']_vars

\* the second firing of the interval: 1 is displayed, the interval pending
C18_Witness ==
    /\ mounted
    /\ phase = "countdown"
    /\ countdown = 1
    /\ ticksFired = 2
    /\ countdownInterval
    /\ ~startRefSet

\* the bounds the running start() closure holds
ClosureBounds == Bounds(motion.w, motion.h)

\* C19: in NORMAL mode y is at the vertical centre of the field for the whole
\* round; every leg runs along x to minX or maxX; the first leg goes to the
\* bound on the far side of the midpoint from the start position; the leg that
\* follows a finished leg goes to the opposite bound.
C19_NormalPingPong ==
    /\ []((mounted /\ mode = "NORMAL" /\ isFieldReady)
          => motion.y = Bounds(fieldWidth, fieldHeight).centerY)
    /\ []((mode = "NORMAL" /\ motion.animating)
          => (/\ motion.destX \in {ClosureBounds.minX, ClosureBounds.maxX}
              /\ motion.destY = motion.y))
    /\ [][(mode = "NORMAL" /\ observeClock'.starts > observeClock.starts
           /\ motion'.running)
            => motion'.destX =
                 IF 2 * motion'.x > ClosureBounds'.minX + ClosureBounds'.maxX
                 THEN ClosureBounds'.minX ELSE ClosureBounds'.maxX]_vars
    /\ [][(mode = "NORMAL" /\ AnimFinished)
            => (/\ motion'.animating
                /\ motion'.destX # motion.destX
                /\ motion'.destX \in {ClosureBounds.minX, ClosureBounds.maxX})]_vars

\* the ticks a straight run of distance pixels takes at speed px/s, when that
\* is a whole number
TakesAt(ticks, distance, speed) == ticks * speed = distance * TicksPerSecond

\* the wall the leg runs into first, seen from its start: the time to it at
\* the velocity's component is nextTime, and no other wall is nearer in time
HitsAt(c, b) ==
    /\ c.vx * c.vx + c.vy * c.vy = DIAGONAL_SPEED * DIAGONAL_SPEED
    /\ \/ c.vx > 0 /\ TakesAt(c.nextTime, b.maxX - c.x, c.vx)
       \/ c.vx < 0 /\ TakesAt(c.nextTime, c.x - b.minX, 0 - c.vx)
       \/ c.vy > 0 /\ TakesAt(c.nextTime, b.maxY - c.y, c.vy)
       \/ c.vy < 0 /\ TakesAt(c.nextTime, c.y - b.minY, 0 - c.vy)
    /\ c.vx > 0 => c.nextTime * c.vx <= (b.maxX - c.x) * TicksPerSecond
    /\ c.vx < 0 => c.nextTime * (0 - c.vx) <= (c.x - b.minX) * TicksPerSecond
    /\ c.vy > 0 => c.nextTime * c.vy <= (b.maxY - c.y) * TicksPerSecond
    /\ c.vy < 0 => c.nextTime * (0 - c.vy) <= (c.y - b.minY) * TicksPerSecond

\* C20 (as stated): every leg runs at its mode's fixed speed: a NORMAL leg
\* takes distance / 190 s, a PRO leg takes exactly the time to the next wall
\* at 240 px/s, for every leg length.
C20_LegsAtFixedSpeed ==
    legCall.done =>
        IF legCall.mode = "NORMAL"
        THEN TakesAt(legCall.duration, legCall.distance, HORIZONTAL_SPEED)
        ELSE /\ HitsAt(legCall, Bounds(legCall.width, legCall.height))
             /\ legCall.duration = legCall.nextTime

\* C20 (amended): a NORMAL leg takes distance / 190 s but no less than 220 ms,
\* a PRO leg takes the time to the next wall at 240 px/s but no less than
\* 160 ms: legs of 42 px or more (NORMAL) and of 160 ms or more (PRO) run at
\* the fixed speed, shorter ones run slower.
C20_LegsAtFixedSpeedWithFloor ==
    legCall.done =>
        IF legCall.mode = "NORMAL"
        THEN /\ legCall.duration >= 220 * TicksPerMs
             /\ \/ TakesAt(legCall.duration, legCall.distance, HORIZONTAL_SPEED)
                \/ /\ legCall.duration = 220 * TicksPerMs
                   /\ legCall.distance * 1000 < 220 * HORIZONTAL_SPEED
        ELSE /\ HitsAt(legCall, Bounds(legCall.width, legCall.height))
             /\ legCall.duration >= 160 * TicksPerMs
             /\ \/ legCall.duration = legCall.nextTime
                \/ /\ legCall.duration = 160 * TicksPerMs
                   /\ legCall.nextTime < 160 * TicksPerMs

\* a PRO leg into a corner: the wall is 38 px or less away, the leg is given
\* 160 ms all the same
C20_Witness ==
    /\ legCall.done
    /\ legCall.mode = "PRO"
    /\ legCall.width = 360 /\ legCall.height = 640
    /\ legCall.nextTime > 0
    /\ legCall.nextTime < 160 * TicksPerMs
    /\ legCall.duration = 160 * TicksPerMs

\* the leg in flight ends on the wall ahead on every axis it is said to hit,
\* hits at least one, and stops short of the wall ahead on the other axis
EarliestHit(m, b) ==
    /\ m.hitX \/ m.hitY
    /\ m.hitX => m.destX = (IF m.vx > 0 THEN b.maxX ELSE b.minX)
    /\ m.hitY => m.destY = (IF m.vy > 0 THEN b.maxY ELSE b.minY)
    /\ (~m.hitX /\ m.vx > 0) => m.destX < b.maxX
    /\ (~m.hitX /\ m.vx < 0) => m.destX > b.minX
    /\ (~m.hitY /\ m.vy > 0) => m.destY < b.maxY
    /\ (~m.hitY /\ m.vy < 0) => m.destY > b.minY

\* no velocity component points into a wall the position is on
NotIntoWall(m, b) ==
    /\ (b.canMoveX /\ m.x >= b.maxX) => m.vx <= 0
    /\ (b.canMoveX /\ m.x <= b.minX) => m.vx >= 0
    /\ (b.canMoveY /\ m.y >= b.maxY) => m.vy <= 0
    /\ (b.canMoveY /\ m.y <= b.minY) => m.vy >= 0

\* C21: in PRO mode each leg runs to the earliest wall hit over the two axes;
\* when it ends, the velocity component of each axis whose wall was reached is
\* negated and the other is unchanged; |vx| and |vy| keep their values for the
\* whole round, and the target never moves further into a wall it is on.
C21_ProReflection ==
    /\ []((mode = "PRO" /\ motion.animating)
          => (EarliestHit(motion, ClosureBounds) /\ NotIntoWall(motion, ClosureBounds)))
    /\ [][(mode = "PRO" /\ AnimFinished)
            => (/\ motion'.vx = (IF motion.hitX THEN 0 - motion.vx ELSE motion.vx)
                /\ motion'.vy = (IF motion.hitY THEN 0 - motion.vy ELSE motion.vy))]_vars
    /\ [][(mode = "PRO" /\ motion.running /\ motion'.running)
            => (/\ Abs(motion'.vx) = Abs(motion.vx)
                /\ Abs(motion'.vy) = Abs(motion.vy))]_vars

\* C22: with no players list and a legacy nickname, when getPlayers and
\* getActivePlayer were started together and both have completed, the stored
\* list holds exactly one profile, the stored active id is its id, and the
\* list and the active player handed back to load() are that profile.
C22_MigrationCreatesOneProfile ==
    (tasks[1].status = "returned" /\ tasks[2].status = "returned")
        => /\ Len(StoredPlayers) = 1
           /\ store.activePlayer = StoredPlayers[1].id
           /\ tasks[1].result = <<StoredPlayers[1]>>
           /\ tasks[2].resultProfile = StoredPlayers[1]

\* the names of the stored profiles
StoredNames == {StoredPlayers[i].name : i \in 1 .. Len(StoredPlayers)}

\* C23: when two addPlayer calls with different valid names have both
\* completed, however they interleaved, both profiles are in the stored list
\* and the stored active id is the id of a stored profile.
C23_OverlappingAddsKeepBoth ==
    (/\ tasks[1].op = "addPlayer" /\ tasks[1].status \in {"returned", "threw"}
     /\ tasks[2].op = "addPlayer" /\ tasks[2].status \in {"returned", "threw"})
        => /\ tasks[1].status = "returned" /\ tasks[2].status = "returned"
           /\ {FirstName, SecondName} \subseteq StoredNames
           /\ FindById(StoredPlayers, store.activePlayer) # 0

\* the stored entries of a mode
StoredOfMode(gameMode) == Filter(getScoresOf(store.scores).list, gameMode)

\* C24: once a mode tab was pressed, that mode is the active mode until
\* another tab is pressed; the rows listed are exactly the stored entries of
\* that mode, and the empty-list message is shown when it has none.
C24_PressedTabStaysActive ==
    (board.pressed # "none" /\ ~board.loading)
        => /\ board.activeMode = board.pressed
           /\ sortedModeData = StoredOfMode(board.pressed)
           /\ StoredOfMode(board.pressed) = <<>> => emptyComponentShown

====
